---- MODULE Spec2Model ----
(***************************************************************************)
(* depWeaver: the runtime dependency-injection container.                  *)
(*                                                                         *)
(* The container (internal/container) is modelled as the record dc, one    *)
(* field per map of the DependencyContainer struct, guarded by the         *)
(* read/write mutex mu.  Every goroutine is a process with a stack of      *)
(* frames; one action is one critical section (or one lock-free stretch)   *)
(* of the resolver, so that the interleavings of concurrent callers are    *)
(* those the mutex allows.  The entry points of pkg/di are actions that    *)
(* call the container operation and then Validate.                         *)
(***************************************************************************)
EXTENDS Integers, Sequences, FiniteSets, TLC

VARIABLES dc, mu, frames, last, calls, ops

vars == <<dc, mu, frames, last, calls, ops>>

----------------------------------------------------------------------------
(* Bounds of the model                                                     *)

\* top-level calls issued in one behaviour
MaxOps == 3

----------------------------------------------------------------------------
(* Types, scopes, scope ids                                                *)

Concrete == {"A", "B", "C"}
Interfaces == {"I"}
Types == Concrete \cup Interfaces

\* reflect.Type.Kind() == reflect.Interface
IsInterface(t) == t \in Interfaces

\* reflect.Type.Implements: the concrete types whose method set satisfies I
Implements(c, i) == i = "I" /\ c \in {"A", "B"}

Singleton == 0
Transient == 1
Scoped == 2
Scopes == {Singleton, Transient, Scoped}

\* "" is the default (empty) scope id of Resolve
NoScope == ""
ScopeIds == {"s1", "s2"}

Procs == {1, 2}

----------------------------------------------------------------------------
(* Go maps                                                                 *)

EmptyMap == [k \in {} |-> k]
Has(m, k) == k \in DOMAIN m
Put(m, k, v) == [x \in (DOMAIN m) \cup {k} |-> IF x = k THEN v ELSE m[x]]
Del(m, k) == [x \in (DOMAIN m) \ {k} |-> m[x]]

Last(s) == s[Len(s)]
Front(s) == SubSeq(s, 1, Len(s) - 1)
InSeq(x, s) == \E i \in 1..Len(s) : s[i] = x

----------------------------------------------------------------------------
(* Values, errors, results                                                 *)

Nil == [nil |-> TRUE]

\* the value a constructor call returns: a new object, told apart from every
\* other by the number of the call that made it; ver names the constructor
\* function and args the objects it was given
Instance(t, n, ver, args) == [t |-> t, n |-> n, ver |-> ver, args |-> args]

\* results[0].Interface() of a constructor that returned a nil interface:
\* the nil interface{}, which has no dynamic type
NilValue == Instance("", 0, 0, <<>>)

\* fmt.Errorf values: the kind of message, the type it names, the chain it
\* prints and the error it wraps (%w)
Err(kind, t, chain, cause) == [kind |-> kind, t |-> t, chain |-> chain, cause |-> cause]

Ok(v) == [ok |-> TRUE, val |-> v, err |-> Nil]
Fail(e) == [ok |-> FALSE, val |-> Nil, err |-> e]

\* no result yet
Pending == [pending |-> TRUE]

RECURSIVE RootCause(_)
\* errors.Unwrap to the innermost error
RootCause(e) == IF e.cause = Nil THEN e ELSE RootCause(e.cause)

----------------------------------------------------------------------------
(* Constructor functions handed to the container                           *)

\* A value passed as "constructor": fn says whether it is a function at all,
\* nout is its number of results, out its first result type, errOut whether
\* its second result is an error type, params its parameter types, mayFail
\* whether a call of it can return a non-nil error, nilOut whether it returns
\* a nil first result, ver which function it is.
Ctor(out, params, ver) ==
    [fn |-> TRUE, nout |-> 1, errOut |-> FALSE, out |-> out, params |-> params,
     mayFail |-> FALSE, nilOut |-> FALSE, ver |-> ver]

\* func() T { return nil } for an interface type T
CtorNil(out, ver) == [Ctor(out, <<>>, ver) EXCEPT !.nilOut = TRUE]

\* func(...) (T, error)
CtorE(out, params, ver) ==
    [fn |-> TRUE, nout |-> 2, errOut |-> TRUE, out |-> out, params |-> params,
     mayFail |-> TRUE, nilOut |-> FALSE, ver |-> ver]

\* a slice of constructors passed where one constructor is expected
NotAFunc == [Ctor("A", <<>>, 90) EXCEPT !.fn = FALSE]
\* func() with no result
NoResult == [Ctor("A", <<>>, 91) EXCEPT !.nout = 0]
\* func() (T, int)
BadSecond == [Ctor("A", <<>>, 92) EXCEPT !.nout = 2]

Registration(c, scope) == [constructor |-> c, scope |-> scope, paramTypes |-> c.params]

----------------------------------------------------------------------------
(* The container                                                           *)

\* container.New()
New ==
    [constructors |-> EmptyMap,
     namedConstructors |-> EmptyMap,
     interfaceBindings |-> EmptyMap,
     namedInterfaceBindings |-> EmptyMap,
     dependencies |-> EmptyMap,
     namedDependencies |-> EmptyMap,
     scopedInstances |-> EmptyMap,
     namedScopedInstances |-> EmptyMap,
     inProgress |-> {}]

\* the signature checks of RegisterConstructorWithScope: Nil, or the error
SignatureError(c) ==
    IF ~c.fn THEN Err("invalid", "", <<>>, Nil)
    ELSE IF c.nout = 0 \/ c.nout > 2 THEN Err("invalid", "", <<>>, Nil)
    ELSE IF c.nout = 2 /\ ~c.errOut THEN Err("invalid", "", <<>>, Nil)
    ELSE Nil

\* a registration that turns down a constructor whose parameter types are not
\* registered yet
RegisterDependenciesFirst(d, c, scope) ==
    IF SignatureError(c) # Nil
    THEN [dc |-> d, err |-> SignatureError(c)]
    ELSE IF \E k \in 1..Len(c.params) : ~Has(d.constructors, c.params[k])
    THEN [dc |-> d, err |-> Err("noctor", c.out, <<>>, Nil)]
    ELSE [dc |-> [d EXCEPT !.constructors = Put(@, c.out, Registration(c, scope))],
          err |-> Nil]

\* the registration is stored under the constructor's first result type;
\* a second registration of the type replaces the first
RegisterConstructorWithScope(d, c, scope) ==
    IF SignatureError(c) # Nil
    THEN [dc |-> d, err |-> SignatureError(c)]
    ELSE [dc |-> [d EXCEPT !.constructors = Put(@, c.out, Registration(c, scope))],
          err |-> Nil]

RegisterConstructor(d, c) == RegisterConstructorWithScope(d, c, Singleton)

RegisterRuntimeConstructor(d, c, scope) == RegisterConstructorWithScope(d, c, scope)

\* delete(scopeCache, t) in every partition
EvictScoped(parts, t) == [s \in DOMAIN parts |-> Del(parts[s], t)]

\* an override that replaces the registration and keeps the caches
OverrideKeepingCaches(d, c, scope) ==
    IF ~c.fn THEN [dc |-> d, err |-> Err("invalid", "", <<>>, Nil)]
    ELSE RegisterConstructorWithScope(d, c, scope)

\* an override that empties the whole singleton cache
OverrideEvictingAll(d, c, scope) ==
    IF ~c.fn THEN [dc |-> d, err |-> Err("invalid", "", <<>>, Nil)]
    ELSE IF c.nout = 0 THEN [dc |-> d, err |-> Err("panic", "", <<>>, Nil)]
    ELSE LET r == RegisterConstructorWithScope(d, c, scope) IN
         IF r.err # Nil THEN r
         ELSE [dc |-> [r.dc EXCEPT !.dependencies = EmptyMap,
                                   !.scopedInstances = EvictScoped(@, c.out)],
               err |-> Nil]

\* register, then drop the type from the singleton cache and from every
\* scope partition
OverrideConstructor(d, c, scope) ==
    IF ~c.fn THEN [dc |-> d, err |-> Err("invalid", "", <<>>, Nil)]
    \* constructorType.Out(0) of a function without results panics
    ELSE IF c.nout = 0 THEN [dc |-> d, err |-> Err("panic", "", <<>>, Nil)]
    ELSE LET r == RegisterConstructorWithScope(d, c, scope) IN
         IF r.err # Nil THEN r
         ELSE [dc |-> [r.dc EXCEPT !.dependencies = Del(@, c.out),
                                   !.scopedInstances = EvictScoped(@, c.out)],
               err |-> Nil]

\* delete(namedCache, t) under the name, in every partition that has the name
EvictNamedScoped(parts, name, t) ==
    [s \in DOMAIN parts |->
        IF Has(parts[s], name)
        THEN [parts[s] EXCEPT ![name] = Del(@, t)]
        ELSE parts[s]]

RegisterNamedConstructorWithScope(d, name, c, scope) ==
    IF ~c.fn THEN [dc |-> d, err |-> Err("invalid", "", <<>>, Nil)]
    ELSE IF c.nout = 0 \/ c.nout > 2 THEN [dc |-> d, err |-> Err("invalid", "", <<>>, Nil)]
    ELSE IF c.nout = 2 /\ ~c.errOut THEN [dc |-> d, err |-> Err("invalid", "", <<>>, Nil)]
    ELSE LET nm == IF Has(d.namedConstructors, name)
                   THEN d.namedConstructors[name] ELSE EmptyMap
             nd == IF Has(d.namedDependencies, name)
                   THEN Put(d.namedDependencies, name, Del(d.namedDependencies[name], c.out))
                   ELSE d.namedDependencies
         IN [dc |-> [d EXCEPT
                        !.namedConstructors = Put(@, name, Put(nm, c.out, Registration(c, scope))),
                        !.namedDependencies = nd,
                        !.namedScopedInstances = EvictNamedScoped(@, name, c.out)],
             err |-> Nil]

\* a binding made without asking for the constructor of the concrete type
BindInterfaceUnregistered(d, i, c) ==
    IF ~IsInterface(i) THEN [dc |-> d, err |-> Err("notinterface", i, <<>>, Nil)]
    ELSE IF ~Implements(c, i) THEN [dc |-> d, err |-> Err("notimplemented", c, <<>>, Nil)]
    ELSE [dc |-> [d EXCEPT !.interfaceBindings = Put(@, i, c)], err |-> Nil]

\* BindInterface: the target must be an interface, the concrete type must
\* implement it and must have a constructor
BindInterface(d, i, c) ==
    IF ~IsInterface(i) THEN [dc |-> d, err |-> Err("notinterface", i, <<>>, Nil)]
    ELSE IF ~Implements(c, i) THEN [dc |-> d, err |-> Err("notimplemented", c, <<>>, Nil)]
    ELSE IF ~Has(d.constructors, c) THEN [dc |-> d, err |-> Err("noctor", c, <<>>, Nil)]
    ELSE [dc |-> [d EXCEPT !.interfaceBindings = Put(@, i, c)], err |-> Nil]

BindInterfaceNamed(d, name, i, c) ==
    IF ~IsInterface(i) THEN [dc |-> d, err |-> Err("notinterface", i, <<>>, Nil)]
    ELSE IF ~Implements(c, i) THEN [dc |-> d, err |-> Err("notimplemented", c, <<>>, Nil)]
    ELSE IF ~Has(d.constructors, c) THEN [dc |-> d, err |-> Err("noctor", c, <<>>, Nil)]
    ELSE LET nb == IF Has(d.namedInterfaceBindings, name)
                   THEN d.namedInterfaceBindings[name] ELSE EmptyMap
         IN [dc |-> [d EXCEPT !.namedInterfaceBindings = Put(@, name, Put(nb, i, c))],
             err |-> Nil]

\* (concrete type, found)
GetInterfaceBinding(d, i) ==
    IF Has(d.interfaceBindings, i)
    THEN [t |-> d.interfaceBindings[i], ok |-> TRUE]
    ELSE [t |-> "", ok |-> FALSE]

GetNamedInterfaceBinding(d, name, i) ==
    IF Has(d.namedInterfaceBindings, name) /\ Has(d.namedInterfaceBindings[name], i)
    THEN [t |-> d.namedInterfaceBindings[name][i], ok |-> TRUE]
    ELSE [t |-> "", ok |-> FALSE]

----------------------------------------------------------------------------
(* Scope manager                                                           *)

\* generateScopeID draws 16 random bytes: an id no partition is using
FreshScopeIds(d) ==
    ScopeIds \ ((DOMAIN d.scopedInstances) \cup (DOMAIN d.namedScopedInstances))

CreateScope(d, sid) == [d EXCEPT !.scopedInstances = Put(@, sid, EmptyMap)]

\* a destroy that drops every partition
DestroyEveryScope(d, sid) ==
    [d EXCEPT !.scopedInstances = EmptyMap,
              !.namedScopedInstances = EmptyMap]

\* a destroy that leaves the named partition of the id
DestroyScopeUnnamedOnly(d, sid) ==
    [d EXCEPT !.scopedInstances = Del(@, sid)]

\* delete(dc.scopedInstances, scopeID); delete(dc.namedScopedInstances, scopeID)
DestroyScope(d, sid) ==
    [d EXCEPT !.scopedInstances = Del(@, sid),
              !.namedScopedInstances = Del(@, sid)]

\* a reset of the scope partitions that also empties the singleton caches
DestroyAllScopesAndCaches(d) ==
    [d EXCEPT !.scopedInstances = EmptyMap,
              !.namedScopedInstances = EmptyMap,
              !.dependencies = EmptyMap,
              !.namedDependencies = EmptyMap]

\* both maps of partitions are replaced by new empty maps
DestroyAllScopes(d) ==
    [d EXCEPT !.scopedInstances = EmptyMap,
              !.namedScopedInstances = EmptyMap]

----------------------------------------------------------------------------
(* Validator                                                               *)

nodeKey(t, name) == [t |-> t, name |-> name]

RECURSIVE validateNode(_, _, _, _)
RECURSIVE validateParams(_, _, _, _, _)

\* a loop that walks every parameter under the name of the node it belongs to
validateParamsByName(d, params, i, st, stack) ==
    IF i > Len(params) THEN [err |-> Nil, st |-> st]
    ELSE LET r == validateNode(d, nodeKey(params[i], stack[Len(stack)].name), st, stack) IN
         IF r.err # Nil THEN r
         ELSE validateParams(d, params, i + 1, r.st, stack)

\* the loop over reg.paramTypes: every parameter is an unnamed node; the
\* first error ends the walk
validateParams(d, params, i, st, stack) ==
    IF i > Len(params) THEN [err |-> Nil, st |-> st]
    ELSE LET r == validateNode(d, nodeKey(params[i], ""), st, stack) IN
         IF r.err # Nil THEN r
         ELSE validateParams(d, params, i + 1, r.st, stack)

\* a walk that leaves the key in inProgress when it is done with it
validateNodeSticky(d, key, st, stack) ==
    IF key \in st.inProgress
    THEN [err |-> Err("circular", key.t, Append(stack, key), Nil), st |-> st]
    ELSE IF key \in st.visited
    THEN [err |-> Nil, st |-> st]
    ELSE LET st1 == [st EXCEPT !.inProgress = @ \cup {key}]
             newStack == Append(stack, key)
             t == key.t
             r == IF key.name # ""
                  THEN LET b == GetNamedInterfaceBinding(d, key.name, t) IN
                       IF IsInterface(t) /\ b.ok
                       THEN validateNode(d, nodeKey(b.t, ""), st1, newStack)
                       ELSE IF Has(d.namedConstructors, key.name)
                               /\ Has(d.namedConstructors[key.name], t)
                       THEN validateParams(d, d.namedConstructors[key.name][t].paramTypes,
                                           1, st1, newStack)
                       ELSE [err |-> Err("nonamed", t, <<>>, Nil), st |-> st1]
                  ELSE IF IsInterface(t)
                  THEN LET b == GetInterfaceBinding(d, t) IN
                       IF b.ok
                       THEN validateNode(d, nodeKey(b.t, ""), st1, newStack)
                       ELSE [err |-> Err("nobinding", t, <<>>, Nil), st |-> st1]
                  ELSE IF Has(d.constructors, t)
                  THEN validateParams(d, d.constructors[t].paramTypes, 1, st1, newStack)
                  ELSE [err |-> Err("noctor", t, <<>>, Nil), st |-> st1]
         IN [err |-> r.err,
             st |-> [visited |-> r.st.visited \cup {key},
                     inProgress |-> r.st.inProgress]]

\* validateNode(key, visited, inProgress, stack): st carries the two maps.
\* A key in progress is a cycle, reported with the whole stack of the walk;
\* a visited key is skipped; the deferred function takes the key out of
\* inProgress and marks it visited however the walk of it ends.
validateNode(d, key, st, stack) ==
    IF key \in st.inProgress
    THEN [err |-> Err("circular", key.t, Append(stack, key), Nil), st |-> st]
    ELSE IF key \in st.visited
    THEN [err |-> Nil, st |-> st]
    ELSE LET st1 == [st EXCEPT !.inProgress = @ \cup {key}]
             newStack == Append(stack, key)
             t == key.t
             r == IF key.name # ""
                  THEN LET b == GetNamedInterfaceBinding(d, key.name, t) IN
                       IF IsInterface(t) /\ b.ok
                       THEN validateNode(d, nodeKey(b.t, ""), st1, newStack)
                       ELSE IF Has(d.namedConstructors, key.name)
                               /\ Has(d.namedConstructors[key.name], t)
                       THEN validateParams(d, d.namedConstructors[key.name][t].paramTypes,
                                           1, st1, newStack)
                       ELSE [err |-> Err("nonamed", t, <<>>, Nil), st |-> st1]
                  ELSE IF IsInterface(t)
                  THEN LET b == GetInterfaceBinding(d, t) IN
                       IF b.ok
                       THEN validateNode(d, nodeKey(b.t, ""), st1, newStack)
                       ELSE [err |-> Err("nobinding", t, <<>>, Nil), st |-> st1]
                  ELSE IF Has(d.constructors, t)
                  THEN validateParams(d, d.constructors[t].paramTypes, 1, st1, newStack)
                  ELSE [err |-> Err("noctor", t, <<>>, Nil), st |-> st1]
         IN [err |-> r.err,
             st |-> [visited |-> r.st.visited \cup {key},
                     inProgress |-> r.st.inProgress \ {key}]]

RECURSIVE validateRoots(_, _, _, _)
\* the two loops of Validate over the roots in the order the maps yield them:
\* one visited map for the whole call, a new inProgress map for every root
validateRoots(d, order, i, visited) ==
    IF i > Len(order) THEN Nil
    ELSE LET r == validateNode(d, order[i], [visited |-> visited, inProgress |-> {}], <<>>) IN
         IF r.err # Nil THEN r.err
         ELSE validateRoots(d, order, i + 1, r.st.visited)

\* every order of the elements of S
Orders(S) ==
    {f \in [1..Cardinality(S) -> S] : \A i, j \in 1..Cardinality(S) : f[i] = f[j] => i = j}

UnnamedRoots(d) == {nodeKey(t, "") : t \in DOMAIN d.constructors}
NamedRoots(d) ==
    UNION {{nodeKey(t, n) : t \in DOMAIN d.namedConstructors[n]} : n \in DOMAIN d.namedConstructors}

\* Go ranges over a map in an order of its own choosing: the unnamed
\* registrations in any order, then the named ones in any order
ValidateOrders(d) ==
    {u \o n : u \in Orders(UnnamedRoots(d)), n \in Orders(NamedRoots(d))}

\* the results Validate can return on d: Nil, or the error of the first root
\* whose walk fails
Validate(d) == {validateRoots(d, o, 1, {}) : o \in ValidateOrders(d)}

----------------------------------------------------------------------------
(* The mutex dc.mu (sync.RWMutex): w is the goroutine holding the write     *)
(* lock (0: none), r the number of read locks held.  The lock is not       *)
(* reentrant: a goroutine that holds the write lock and asks for it, or    *)
(* for a read lock, again waits for itself.  A goroutine blocked in Lock()   *)
(* keeps every later RLock() out until it has had the lock.                *)

\* the positions of a goroutine blocked in dc.mu.Lock()
WaitPcs == {"ov_register_wait", "ov_evict_wait", "ds_wait"}

WriterWaiting ==
    \E q \in Procs : Len(frames[q]) > 0 /\ frames[q][Len(frames[q])].pc \in WaitPcs

Unlocked == [w |-> 0, r |-> 0]
CanRLock == mu.w = 0 /\ ~WriterWaiting
CanLock == mu.w = 0 /\ mu.r = 0

----------------------------------------------------------------------------
(* Frames: the call stack of one goroutine inside the resolver             *)

Frame(pc, t, sid, stack) ==
    [pc |-> pc, t |-> t, name |-> "", sid |-> sid, stack |-> stack, reg |-> Nil,
     i |-> 1, args |-> <<>>, res |-> Pending, woken |-> FALSE]

\* entry of resolveWithScope(t, scopeID, stack): an interface type first asks
\* for its binding, any other type goes to the cycle check
Enter(t, sid, stack) ==
    Frame(IF IsInterface(t) THEN "rws_bind" ELSE "rws_check", t, sid, stack)

\* a chain that names only the repeated type
formatRepeatedType(t, stack) == <<t, t>>

\* formatDependencyChain(t, stack): the whole stack of the call, then t
formatDependencyChain(t, stack) ==
    IF Len(stack) = 0 THEN <<t, t>> ELSE Append(stack, t)

\* "error resolving dependency %v (parameter %d of %v): %w"
WrapParam(argType, i, c, cause) ==
    [kind |-> "param", t |-> argType, chain |-> <<>>, cause |-> cause,
     i |-> i, of |-> c.ver]

\* the wrapper of a named registration:
\* "error resolving dependency %v for named %q: %w"
WrapNamedParam(argType, name, cause) ==
    [kind |-> "nparam", t |-> argType, chain |-> <<>>, cause |-> cause, name |-> name]

\* registration.constructor(dc, scopeID, stack): the frame of the wrapped
\* constructor and, when it has parameters, the resolve of the first one
CallConstructor(reg, t, sid, stack) ==
    LET f == [Frame("ctor", t, sid, stack) EXCEPT !.reg = reg] IN
    IF Len(reg.paramTypes) = 0 THEN <<f>>
    ELSE <<f, Enter(reg.paramTypes[1], sid, stack)>>

\* a transient resolve sent through the singleton cache
resolveTransientCached(t, reg, sid, stack) ==
    <<[Frame("rs_fast", t, sid, stack) EXCEPT !.reg = reg]>>

\* resolveTransient: nothing but the constructor call
resolveTransient(t, reg, sid, stack) == CallConstructor(reg, t, sid, stack)

RECURSIVE Deliver(_, _)
\* an argument loop that notes the failure of a parameter and goes on with a
\* nil argument
DeliverKeepsGoing(s, r) ==
    IF Len(s) = 0 THEN [fr |-> s, out |-> r]
    ELSE LET top == Last(s) IN
         IF top.pc = "ctor"
         THEN LET nt == [top EXCEPT !.args = Append(@, IF r.ok THEN r.val ELSE Nil),
                                    !.i = @ + 1] IN
              IF nt.i <= Len(nt.reg.paramTypes)
              THEN [fr |-> Front(s) \o <<nt, Enter(nt.reg.paramTypes[nt.i], nt.sid, nt.stack)>>,
                    out |-> Pending]
              ELSE [fr |-> Front(s) \o <<nt>>, out |-> Pending]
         ELSE [fr |-> Front(s) \o <<[top EXCEPT !.res = r]>>, out |-> Pending]

\* a call returns r to the frames s of its callers.  The argument loop of the
\* wrapped constructor touches no shared state: a failed parameter returns at
\* once, wrapped; a resolved one is stored and the next one is resolved.  The
\* other callers (a singleton or scoped build) pick r up in their next step.
Deliver(s, r) ==
    IF Len(s) = 0 THEN [fr |-> s, out |-> r]
    ELSE LET top == Last(s) IN
         IF top.pc = "ctor"
         THEN IF ~r.ok
              THEN Deliver(Front(s),
                     Fail(IF top.name = ""
                          THEN WrapParam(top.reg.paramTypes[top.i], top.i,
                                         top.reg.constructor, r.err)
                          ELSE WrapNamedParam(top.reg.paramTypes[top.i], top.name, r.err)))
              ELSE LET nt == [top EXCEPT !.args = Append(@, r.val), !.i = @ + 1] IN
                   IF nt.i <= Len(nt.reg.paramTypes)
                   THEN [fr |-> Front(s) \o <<nt, Enter(nt.reg.paramTypes[nt.i], nt.sid, nt.stack)>>,
                         out |-> Pending]
                   ELSE [fr |-> Front(s) \o <<nt>>, out |-> Pending]
         ELSE [fr |-> Front(s) \o <<[top EXCEPT !.res = r]>>, out |-> Pending]

Top(p) == Last(frames[p])
Running(p) == Len(frames[p]) > 0
At(p, pc) == Running(p) /\ Top(p).pc = pc

\* last[p]: the call process p made last, and its result once it has returned.
\* made lists the types whose constructors the call has invoked, in order;
\* after tells of a Resolve whether the caller's call before it was an
\* Override that returned nil, and of which type; arg is the concrete type
\* handed to BindInterface and BindInterfaceNamed, or the registrations handed
\* to a batch registration.
NoCall == [op |-> "none", t |-> "", ok |-> FALSE]
Call(op, t, name, sid) ==
    [op |-> op, t |-> t, name |-> name, sid |-> sid, res |-> Pending, made |-> <<>>,
     after |-> NoCall, arg |-> ""]

\* call c made after the caller's call b
After(c, b) ==
    IF b.res # Pending /\ (b.op = "Get" \/ (b.op = "Override" /\ b.res.ok))
    THEN [c EXCEPT !.after = [op |-> b.op, t |-> b.t, ok |-> b.res.ok]]
    ELSE c
Idle == Call("none", "", "", "")
\* di.Resolve wraps an error: "failed to resolve type %v: %w";
\* di.ResolveNamed wraps it as "failed to resolve named type %v with name
\* %q: %w"; both return "resolved instance is nil for type %v" for a nil
\* instance and hand any other instance on. provider.Get returns the
\* container's error as it is and, when instance.(T) fails, the zero value of
\* T with a nil error. Every other call returns what the container returned.
Returned(c, r) ==
    [c EXCEPT !.res = IF c.op = "Resolve" /\ ~r.ok
                      THEN Fail(Err("resolve", c.t, <<>>, r.err))
                      ELSE IF c.op = "ResolveNamed" /\ ~r.ok
                      THEN Fail(Err("resolvenamed", c.t, <<>>, r.err))
                      ELSE IF c.op \in {"Resolve", "ResolveNamed"} /\ r.val = NilValue
                      THEN Fail(Err("nilinstance", c.t, <<>>, Nil))
                      ELSE IF c.op = "Get" /\ r.ok /\ r.val = NilValue
                      THEN Ok(NilValue)
                      ELSE r]

\* the top frame returns r
Return(p, r) ==
    LET d == Deliver(Front(frames[p]), r) IN
    /\ frames' = [frames EXCEPT ![p] = d.fr]
    /\ last' = IF d.out = Pending THEN last
               ELSE [last EXCEPT ![p] = Returned(@, d.out)]

\* the top frame is replaced by the frames fs
Goto(p, fs) ==
    /\ frames' = [frames EXCEPT ![p] = Front(@) \o fs]
    /\ UNCHANGED last

----------------------------------------------------------------------------
(* Resolver: unnamed resolution                                            *)

\* di.Resolve / di.ResolveScoped: dc.resolveWithScope(t, scopeID, nil)
CallResolve(p, t, sid) ==
    /\ ~Running(p)
    /\ ops < MaxOps
    /\ ops' = ops + 1
    /\ last' = [last EXCEPT ![p] = Call("Resolve", t, "", sid)]
    /\ frames' = [frames EXCEPT ![p] = <<Enter(t, sid, <<>>)>>]
    /\ UNCHANGED <<dc, mu, calls>>

\* a binding followed with the empty scope id
RwsBindNoScope(p) ==
    /\ At(p, "rws_bind")
    /\ CanRLock
    /\ LET f == Top(p)
           b == GetInterfaceBinding(dc, f.t)
       IN Goto(p, IF b.ok THEN <<Enter(b.t, NoScope, f.stack)>>
                  ELSE <<[f EXCEPT !.pc = "rws_check"]>>)
    /\ UNCHANGED <<dc, mu, calls, ops>>

\* resolveWithScope, interface type: GetInterfaceBinding under the read lock;
\* a bound interface is resolved as its concrete type, same scope id and stack
RwsBind(p) ==
    /\ At(p, "rws_bind")
    /\ CanRLock
    /\ LET f == Top(p)
           b == GetInterfaceBinding(dc, f.t)
       IN Goto(p, IF b.ok THEN <<Enter(b.t, f.sid, f.stack)>>
                  ELSE <<[f EXCEPT !.pc = "rws_check"]>>)
    /\ UNCHANGED <<dc, mu, calls, ops>>

\* a cycle check that also takes a build in progress, of whichever caller, for
\* a cycle
RwsLookupAnyBuild(p) ==
    /\ At(p, "rws_check")
    /\ LET f == Top(p) IN
       IF InSeq(f.t, f.stack) \/ f.t \in dc.inProgress
       THEN Return(p, Fail(Err("circular", f.t, formatDependencyChain(f.t, f.stack), Nil)))
       ELSE /\ CanRLock
            /\ IF ~Has(dc.constructors, f.t)
               THEN Return(p, Fail(Err("noctor", f.t, <<>>, Nil)))
               ELSE LET reg == dc.constructors[f.t]
                        newStack == Append(f.stack, f.t)
                    IN IF reg.scope = Singleton
                       THEN Goto(p, <<[f EXCEPT !.pc = "rs_fast", !.reg = reg,
                                                !.stack = newStack]>>)
                       ELSE IF reg.scope = Transient
                       THEN Goto(p, resolveTransient(f.t, reg, f.sid, newStack))
                       ELSE IF f.sid = NoScope
                       THEN Return(p, Fail(Err("scope", f.t, <<>>, Nil)))
                       ELSE Goto(p, <<[f EXCEPT !.pc = "rsc_fast", !.reg = reg,
                                                !.stack = newStack]>>)
    /\ UNCHANGED <<dc, mu, calls, ops>>

\* resolveWithScope: the cycle check on the caller's own stack, the lookup of
\* the registration under the read lock, the dispatch on its scope
RwsLookup(p) ==
    /\ At(p, "rws_check")
    /\ LET f == Top(p) IN
       IF InSeq(f.t, f.stack)
       THEN Return(p, Fail(Err("circular", f.t, formatDependencyChain(f.t, f.stack), Nil)))
       ELSE /\ CanRLock
            /\ IF ~Has(dc.constructors, f.t)
               THEN Return(p, Fail(Err("noctor", f.t, <<>>, Nil)))
               ELSE LET reg == dc.constructors[f.t]
                        newStack == Append(f.stack, f.t)
                    IN IF reg.scope = Singleton
                       THEN Goto(p, <<[f EXCEPT !.pc = "rs_fast", !.reg = reg,
                                                !.stack = newStack]>>)
                       ELSE IF reg.scope = Transient
                       THEN Goto(p, resolveTransient(f.t, reg, f.sid, newStack))
                       ELSE IF f.sid = NoScope
                       THEN Return(p, Fail(Err("scope", f.t, <<>>, Nil)))
                       ELSE Goto(p, <<[f EXCEPT !.pc = "rsc_fast", !.reg = reg,
                                                !.stack = newStack]>>)
    /\ UNCHANGED <<dc, mu, calls, ops>>

\* resolveSingleton, fast path under the read lock: the cached instance, or
\* the channel of the build in progress, or on to the slow path
RsFast(p) ==
    /\ At(p, "rs_fast")
    /\ CanRLock
    /\ LET f == Top(p) IN
       IF Has(dc.dependencies, f.t)
       THEN Return(p, Ok(dc.dependencies[f.t]))
       ELSE IF f.t \in dc.inProgress
       THEN Goto(p, <<[f EXCEPT !.pc = "rs_wait", !.woken = FALSE]>>)
       ELSE Goto(p, <<[f EXCEPT !.pc = "rs_lock"]>>)
    /\ UNCHANGED <<dc, mu, calls, ops>>

\* <-waitChan, then return dc.Resolve(t): empty scope id, empty stack
RsWait(p) ==
    /\ At(p, "rs_wait")
    /\ Top(p).woken
    /\ Goto(p, <<Enter(Top(p).t, NoScope, <<>>)>>)
    /\ UNCHANGED <<dc, mu, calls, ops>>

\* the slow path without its double check: whoever gets the write lock builds
RsLockNoDoubleCheck(p) ==
    /\ At(p, "rs_lock")
    /\ CanLock
    /\ LET f == Top(p) IN
       /\ dc' = [dc EXCEPT !.inProgress = @ \cup {f.t}]
       /\ Goto(p, <<[f EXCEPT !.pc = "rs_built"]>>
                  \o CallConstructor(f.reg, f.t, f.sid, f.stack))
    /\ UNCHANGED <<mu, calls, ops>>

\* resolveSingleton, slow path under the write lock: double check, then mark
\* the type in progress and, the lock released, call the constructor
RsLock(p) ==
    /\ At(p, "rs_lock")
    /\ CanLock
    /\ LET f == Top(p) IN
       IF Has(dc.dependencies, f.t)
       THEN Return(p, Ok(dc.dependencies[f.t])) /\ UNCHANGED dc
       ELSE IF f.t \in dc.inProgress
       THEN Goto(p, <<[f EXCEPT !.pc = "rs_wait", !.woken = FALSE]>>) /\ UNCHANGED dc
       ELSE /\ dc' = [dc EXCEPT !.inProgress = @ \cup {f.t}]
            /\ Goto(p, <<[f EXCEPT !.pc = "rs_built"]>>
                       \o CallConstructor(f.reg, f.t, f.sid, f.stack))
    /\ UNCHANGED <<mu, calls, ops>>

\* the constructor returned an instance: dc.dependencies[t] = instance, under
\* the write lock
RsStore(p) ==
    /\ At(p, "rs_built")
    /\ Top(p).res # Pending
    /\ Top(p).res.ok
    /\ CanLock
    /\ dc' = [dc EXCEPT !.dependencies = Put(@, Top(p).t, Top(p).res.val)]
    /\ Goto(p, <<[Top(p) EXCEPT !.pc = "rs_cleanup"]>>)
    /\ UNCHANGED <<mu, calls, ops>>

\* frames of process q after close(done) of the build of t: every waiter that
\* read this build's channel is released
Wake(fs, t) ==
    [k \in 1..Len(fs) |->
        IF fs[k].pc = "rs_wait" /\ fs[k].t = t THEN [fs[k] EXCEPT !.woken = TRUE]
        ELSE fs[k]]

\* a cleanup that takes the marker away only after a successful build
RsCleanupKeepMarker(p) ==
    /\ \/ At(p, "rs_cleanup")
       \/ At(p, "rs_built") /\ Top(p).res # Pending /\ ~Top(p).res.ok
    /\ CanLock
    /\ dc' = IF Top(p).res.ok THEN [dc EXCEPT !.inProgress = @ \ {Top(p).t}] ELSE dc
    /\ LET d == Deliver(Front(frames[p]), Top(p).res) IN
       /\ frames' = [q \in Procs |->
                        IF q = p THEN d.fr ELSE Wake(frames[q], Top(p).t)]
       /\ last' = IF d.out = Pending THEN last
                  ELSE [last EXCEPT ![p] = Returned(@, d.out)]
    /\ UNCHANGED <<mu, calls, ops>>

\* the deferred function of the builder, on success and on failure:
\* delete(dc.inProgress, t); close(done), under the write lock; then return
RsCleanup(p) ==
    /\ \/ At(p, "rs_cleanup")
       \/ At(p, "rs_built") /\ Top(p).res # Pending /\ ~Top(p).res.ok
    /\ CanLock
    /\ dc' = [dc EXCEPT !.inProgress = @ \ {Top(p).t}]
    /\ LET d == Deliver(Front(frames[p]), Top(p).res) IN
       /\ frames' = [q \in Procs |->
                        IF q = p THEN d.fr ELSE Wake(frames[q], Top(p).t)]
       /\ last' = IF d.out = Pending THEN last
                  ELSE [last EXCEPT ![p] = Returned(@, d.out)]
    /\ UNCHANGED <<mu, calls, ops>>

\* resolveScoped, fast path under the read lock
RscFast(p) ==
    /\ At(p, "rsc_fast")
    /\ CanRLock
    /\ LET f == Top(p) IN
       IF Has(dc.scopedInstances, f.sid) /\ Has(dc.scopedInstances[f.sid], f.t)
       THEN Return(p, Ok(dc.scopedInstances[f.sid][f.t]))
       ELSE Goto(p, <<[f EXCEPT !.pc = "rsc_lock"]>>)
    /\ UNCHANGED <<dc, mu, calls, ops>>

\* the slow path of resolveScoped without its double check
RscLockNoDoubleCheck(p) ==
    /\ At(p, "rsc_lock")
    /\ CanLock
    /\ LET f == Top(p) IN
       /\ dc' = IF Has(dc.scopedInstances, f.sid) THEN dc
                ELSE [dc EXCEPT !.scopedInstances = Put(@, f.sid, EmptyMap)]
       /\ mu' = [mu EXCEPT !.w = p]
       /\ Goto(p, <<[f EXCEPT !.pc = "rsc_built"]>>
                  \o CallConstructor(f.reg, f.t, f.sid, f.stack))
    /\ UNCHANGED <<calls, ops>>

\* a slow path that asks for a partition made by CreateScope
RscLockNeedsPartition(p) ==
    /\ At(p, "rsc_lock")
    /\ CanLock
    /\ LET f == Top(p) IN
       IF ~Has(dc.scopedInstances, f.sid)
       THEN /\ Return(p, Fail(Err("noscope", f.t, <<>>, Nil)))
            /\ UNCHANGED <<dc, mu>>
       ELSE IF Has(dc.scopedInstances[f.sid], f.t)
       THEN /\ Return(p, Ok(dc.scopedInstances[f.sid][f.t]))
            /\ UNCHANGED <<dc, mu>>
       ELSE /\ mu' = [mu EXCEPT !.w = p]
            /\ UNCHANGED dc
            /\ Goto(p, <<[f EXCEPT !.pc = "rsc_built"]>>
                       \o CallConstructor(f.reg, f.t, f.sid, f.stack))
    /\ UNCHANGED <<calls, ops>>

\* resolveScoped, slow path: dc.mu.Lock() with the unlock deferred; double
\* check, make the partition if there is none, call the constructor with the
\* write lock held
RscLock(p) ==
    /\ At(p, "rsc_lock")
    /\ CanLock
    /\ LET f == Top(p) IN
       IF Has(dc.scopedInstances, f.sid) /\ Has(dc.scopedInstances[f.sid], f.t)
       THEN /\ Return(p, Ok(dc.scopedInstances[f.sid][f.t]))
            /\ UNCHANGED <<dc, mu>>
       ELSE /\ dc' = IF Has(dc.scopedInstances, f.sid) THEN dc
                     ELSE [dc EXCEPT !.scopedInstances = Put(@, f.sid, EmptyMap)]
            /\ mu' = [mu EXCEPT !.w = p]
            /\ Goto(p, <<[f EXCEPT !.pc = "rsc_built"]>>
                       \o CallConstructor(f.reg, f.t, f.sid, f.stack))
    /\ UNCHANGED <<calls, ops>>

\* a store that does not look at the constructor's error
RscStoreAlways(p) ==
    /\ At(p, "rsc_built")
    /\ Top(p).res # Pending
    /\ LET f == Top(p) IN
       /\ dc' = [dc EXCEPT !.scopedInstances[f.sid] = Put(@, f.t, f.res.val)]
       /\ mu' = [mu EXCEPT !.w = 0]
       /\ Return(p, f.res)
    /\ UNCHANGED <<calls, ops>>

\* the constructor returned: store the instance in the partition unless it
\* failed, release the write lock, return
RscStore(p) ==
    /\ At(p, "rsc_built")
    /\ Top(p).res # Pending
    /\ LET f == Top(p) IN
       /\ dc' = IF f.res.ok
                THEN [dc EXCEPT !.scopedInstances[f.sid] = Put(@, f.t, f.res.val)]
                ELSE dc
       /\ mu' = [mu EXCEPT !.w = 0]
       /\ Return(p, f.res)
    /\ UNCHANGED <<calls, ops>>

\* the wrapped constructor, its arguments resolved: constructorValue.Call(args).
\* A (T, error) constructor may return a non-nil error; otherwise the call
\* returns a new object, or the nil interface if that is what the function
\* returns.
CtorInvoke(p) ==
    /\ At(p, "ctor")
    /\ Top(p).i > Len(Top(p).reg.paramTypes)
    /\ LET f == Top(p)
           c == f.reg.constructor
           made == [last EXCEPT ![p].made = Append(@, f.t)]
       IN /\ calls' = [calls EXCEPT ![f.t] = @ + 1]
          /\ \E failed \in {b \in BOOLEAN : b => c.mayFail} :
                LET r == IF failed THEN Fail(Err("ctor", f.t, <<>>, Nil))
                         ELSE IF c.nilOut THEN Ok(NilValue)
                         ELSE Ok(Instance(f.t, calls[f.t] + 1, c.ver, f.args))
                    d == Deliver(Front(frames[p]), r)
                IN /\ frames' = [frames EXCEPT ![p] = d.fr]
                   /\ last' = IF d.out = Pending THEN made
                              ELSE [made EXCEPT ![p] = Returned(@, d.out)]
    /\ UNCHANGED <<dc, mu, ops>>

----------------------------------------------------------------------------
(* Scope manager calls                                                     *)

CallCreateScope(p) ==
    /\ ~Running(p)
    /\ ops < MaxOps
    /\ CanLock
    /\ \E sid \in FreshScopeIds(dc) :
          /\ dc' = CreateScope(dc, sid)
          /\ last' = [last EXCEPT ![p] =
                        Returned(Call("CreateScope", "", "", sid), Ok(Nil))]
    /\ ops' = ops + 1
    /\ UNCHANGED <<mu, frames, calls>>

CallDestroyScope(p, sid) ==
    /\ ~Running(p)
    /\ ops < MaxOps
    /\ CanLock
    /\ dc' = DestroyScope(dc, sid)
    /\ last' = [last EXCEPT ![p] =
                  Returned(Call("DestroyScope", "", "", sid), Ok(Nil))]
    /\ ops' = ops + 1
    /\ UNCHANGED <<mu, frames, calls>>

----------------------------------------------------------------------------
(* Concurrent resolution over a registered graph                           *)

RECURSIVE RegisterAll(_, _)
\* the registration loop of di.InitWithScope
RegisterAll(d, regs) ==
    IF Len(regs) = 0 THEN d
    ELSE RegisterAll(RegisterConstructorWithScope(d, regs[1][1], regs[1][2]).dc,
                     SubSeq(regs, 2, Len(regs)))

\* the graphs the callers resolve in
Graphs ==
    { \* a singleton chain and a transient leaf
      <<  <<Ctor("A", <<"B">>, 1), Singleton>>, <<Ctor("B", <<>>, 2), Singleton>>,
          <<Ctor("C", <<>>, 3), Transient>> >>,
      \* a scoped leaf under a singleton and under a transient
      <<  <<Ctor("A", <<>>, 1), Scoped>>, <<Ctor("B", <<"A">>, 2), Singleton>>,
          <<Ctor("C", <<"A">>, 3), Transient>> >>,
      \* constructors that can fail
      <<  <<CtorE("A", <<>>, 1), Singleton>>, <<Ctor("B", <<"A">>, 2), Singleton>>,
          <<CtorE("C", <<>>, 3), Scoped>> >> }

Init ==
    /\ \E g \in Graphs : dc = RegisterAll(New, g)
    /\ mu = Unlocked
    /\ frames = [p \in Procs |-> <<>>]
    /\ last = [p \in Procs |-> Idle]
    /\ calls = [t \in Types |-> 0]
    /\ ops = 0

Step(p) ==
    \/ RwsBind(p)
    \/ RwsLookup(p)
    \/ RsFast(p)
    \/ RsWait(p)
    \/ RsLock(p)
    \/ RsStore(p)
    \/ RsCleanup(p)
    \/ RscFast(p)
    \/ RscLock(p)
    \/ RscStore(p)
    \/ CtorInvoke(p)

Next ==
    \E p \in Procs :
        \/ \E t \in Types, sid \in {NoScope} \cup ScopeIds : CallResolve(p, t, sid)
        \/ CallCreateScope(p)
        \/ \E sid \in ScopeIds : CallDestroyScope(p, sid)
        \/ Step(p)

Spec == Init /\ [][Next]_vars

----------------------------------------------------------------------------
(* The entry points of pkg/di that change the registry, used by one caller *)

\* calls issued in one behaviour of the single caller
MaxMutOps == 4

Main == 1
Names == {"n"}

RECURSIVE RegisterEach(_, _)
\* the registration loops of Init, InitWithScope and the batch variants: the
\* first registration error ends the loop, what was registered before stays
RegisterEach(d, regs) ==
    IF Len(regs) = 0 THEN [dc |-> d, err |-> Nil]
    ELSE LET r == RegisterConstructorWithScope(d, regs[1][1], regs[1][2]) IN
         IF r.err # Nil THEN r
         ELSE RegisterEach(r.dc, SubSeq(regs, 2, Len(regs)))

\* every constructor of cs with the one scope
WithScope(cs, scope) == [k \in 1..Len(cs) |-> <<cs[k], scope>>]

\* the constructors the caller has at hand
A0 == Ctor("A", <<>>, 1)
AB == Ctor("A", <<"B">>, 2)
AA == Ctor("A", <<"A">>, 3)
B0 == Ctor("B", <<>>, 4)
BA == Ctor("B", <<"A">>, 5)
BC == Ctor("B", <<"C">>, 6)
BI == Ctor("B", <<"I">>, 7)
CA == Ctor("C", <<"A">>, 8)
C0 == CtorE("C", <<>>, 9)
I0 == Ctor("I", <<>>, 10)
ABC == Ctor("A", <<"B", "C">>, 16)

InitBatches ==
    { <<AB, B0>>, <<AB, BA>>, <<AB, BC, CA>>, <<AA>>, <<AB>>, <<A0, NotAFunc, BA>>,
      <<BI, A0>>, <<C0, CA, A0>>, <<ABC, BC, C0>> }

ScopeBatches ==
    { << <<A0, Scoped>>, <<BA, Singleton>> >>,
      << <<AA, Scoped>> >>,
      << <<A0, Singleton>>, <<C0, Transient>> >>,
      << <<BadSecond, Singleton>>, <<B0, Singleton>> >> }

RuntimeRegs ==
    { <<A0, Singleton>>, <<A0, Transient>>, <<A0, Scoped>>, <<AB, Singleton>>,
      <<AA, Singleton>>, <<B0, Singleton>>, <<BA, Singleton>>, <<I0, Singleton>>,
      <<NoResult, Singleton>> }

RuntimeBatches == { <<BA, A0>>, <<BC, CA>>, <<B0, NotAFunc>> }

OverrideRegs ==
    { <<A0, Singleton>>, <<A0, Scoped>>, <<AB, Singleton>>, <<B0, Singleton>>,
      <<NotAFunc, Singleton>> }

NamedRegs ==
    { <<A0, Singleton>>, <<AB, Singleton>>, <<AA, Scoped>>, <<I0, Singleton>>,
      <<NotAFunc, Singleton>> }

Bindings == { <<"I", "A">>, <<"I", "B">>, <<"I", "C">>, <<"A", "B">> }

\* the entry point returns the error r.err of the container operation, or
\* else what Validate returns on the registry the operation left
Mutate(p, c, r) ==
    /\ ~Running(p)
    /\ ops < MaxMutOps
    /\ CanLock
    /\ dc' = r.dc
    /\ \E e \in (IF r.err # Nil THEN {r.err} ELSE Validate(r.dc)) :
          last' = [last EXCEPT ![p] = Returned(c, IF e = Nil THEN Ok(Nil) ELSE Fail(e))]
    /\ ops' = ops + 1
    /\ UNCHANGED <<mu, frames, calls>>

DiInit(p, cs) ==
    Mutate(p, Call("Init", "", "", ""), RegisterEach(dc, WithScope(cs, Singleton)))

DiInitWithScope(p, regs) ==
    Mutate(p, Call("InitWithScope", "", "", ""), RegisterEach(dc, regs))

DiRegisterRuntime(p, c, scope) ==
    Mutate(p, Call("RegisterRuntime", c.out, "", ""), RegisterRuntimeConstructor(dc, c, scope))

RECURSIVE RegisterValidatingEach(_, _)
\* a registration loop that validates after every item and ends at the first
\* registration or validation error
RegisterValidatingEach(d, regs) ==
    IF Len(regs) = 0 THEN [dc |-> d, errs |-> {Nil}]
    ELSE LET r == RegisterConstructorWithScope(d, regs[1][1], regs[1][2]) IN
         IF r.err # Nil THEN [dc |-> r.dc, errs |-> {r.err}]
         ELSE IF Nil \notin Validate(r.dc) THEN [dc |-> r.dc, errs |-> Validate(r.dc)]
         ELSE RegisterValidatingEach(r.dc, SubSeq(regs, 2, Len(regs)))

\* a batch registration that validates once per item
DiRegisterRuntimeBatchPerItem(p, cs, scope) ==
    /\ ~Running(p)
    /\ ops < MaxMutOps
    /\ CanLock
    /\ LET r == RegisterValidatingEach(dc, WithScope(cs, scope)) IN
       /\ dc' = r.dc
       /\ \E e \in r.errs :
             last' = [last EXCEPT ![p] =
                        Returned([Call("RegisterRuntimeBatch", "", "", "")
                                     EXCEPT !.arg = WithScope(cs, scope)],
                                 IF e = Nil THEN Ok(Nil) ELSE Fail(e))]
    /\ ops' = ops + 1
    /\ UNCHANGED <<mu, frames, calls>>

\* di.RegisterRuntimeBatch: the loop over the constructors, then Validate
DiRegisterRuntimeBatch(p, cs, scope) ==
    Mutate(p, [Call("RegisterRuntimeBatch", "", "", "") EXCEPT !.arg = WithScope(cs, scope)],
           RegisterEach(dc, WithScope(cs, scope)))

\* di.RegisterRuntimeWithScopes: the loop over the registrations, then Validate
DiRegisterRuntimeWithScopes(p, regs) ==
    Mutate(p, [Call("RegisterRuntimeWithScopes", "", "", "") EXCEPT !.arg = regs],
           RegisterEach(dc, regs))

DiRegisterNamedConstructor(p, name, c, scope) ==
    Mutate(p, Call("RegisterNamedConstructor", c.out, name, ""),
           RegisterNamedConstructorWithScope(dc, name, c, scope))

DiOverride(p, c, scope) ==
    Mutate(p, Call("Override", c.out, "", ""), OverrideConstructor(dc, c, scope))

DiOverrideNamed(p, name, c, scope) ==
    Mutate(p, Call("OverrideNamed", c.out, name, ""),
           RegisterNamedConstructorWithScope(dc, name, c, scope))

DiBindInterface(p, i, c) ==
    Mutate(p, [Call("BindInterface", i, "", "") EXCEPT !.arg = c], BindInterface(dc, i, c))

DiBindInterfaceNamed(p, name, i, c) ==
    Mutate(p, [Call("BindInterfaceNamed", i, name, "") EXCEPT !.arg = c],
           BindInterfaceNamed(dc, name, i, c))

\* a validation that empties the singleton cache it has walked over
DiValidateEvicting(p) ==
    Mutate(p, Call("Validate", "", "", ""),
           [dc |-> [dc EXCEPT !.dependencies = EmptyMap], err |-> Nil])

\* di.Validate: dependencyContainer.Validate() and nothing else
DiValidate(p) ==
    Mutate(p, Call("Validate", "", "", ""), [dc |-> dc, err |-> Nil])

\* di.Resolve and di.ResolveScoped of the single caller
CallResolveSeq(p, t, sid) ==
    /\ ~Running(p)
    /\ ops < MaxMutOps
    /\ ops' = ops + 1
    /\ last' = [last EXCEPT ![p] = After(Call("Resolve", t, "", sid), @)]
    /\ frames' = [frames EXCEPT ![p] = <<Enter(t, sid, <<>>)>>]
    /\ UNCHANGED <<dc, mu, calls>>

\* the steps of the resolver a single caller can take: it never finds a
\* build of another caller in progress
StepSeq(p) ==
    \/ RwsBind(p)
    \/ RwsLookup(p)
    \/ RsFast(p)
    \/ RsLock(p)
    \/ RsStore(p)
    \/ RsCleanup(p)
    \/ RscFast(p)
    \/ RscLock(p)
    \/ RscStore(p)
    \/ CtorInvoke(p)

InitMut ==
    /\ dc = New
    /\ mu = Unlocked
    /\ frames = [p \in Procs |-> <<>>]
    /\ last = [p \in Procs |-> Idle]
    /\ calls = [t \in Types |-> 0]
    /\ ops = 0

NextMut ==
    \/ \E cs \in InitBatches : DiInit(Main, cs)
    \/ \E regs \in ScopeBatches : DiInitWithScope(Main, regs)
    \/ \E r \in RuntimeRegs : DiRegisterRuntime(Main, r[1], r[2])
    \/ \E cs \in RuntimeBatches : DiRegisterRuntimeBatch(Main, cs, Singleton)
    \/ \E regs \in ScopeBatches : DiRegisterRuntimeWithScopes(Main, regs)
    \/ \E n \in Names, r \in NamedRegs : DiRegisterNamedConstructor(Main, n, r[1], r[2])
    \/ \E r \in OverrideRegs : DiOverride(Main, r[1], r[2])
    \/ \E n \in Names, r \in NamedRegs : DiOverrideNamed(Main, n, r[1], r[2])
    \/ \E b \in Bindings : DiBindInterface(Main, b[1], b[2])
    \/ \E n \in Names, b \in Bindings : DiBindInterfaceNamed(Main, n, b[1], b[2])
    \/ DiValidate(Main)
    \/ \E t \in Types, sid \in {NoScope, "s1"} : CallResolveSeq(Main, t, sid)
    \/ StepSeq(Main)

SpecMut == InitMut /\ [][NextMut]_vars

----------------------------------------------------------------------------
(* Concurrent callers in a registry that was left with a cycle             *)

\* the steps of a resolve among Singleton types
StepSingleton(p) ==
    \/ RwsBind(p)
    \/ RwsLookup(p)
    \/ RsFast(p)
    \/ RsWait(p)
    \/ RsLock(p)
    \/ RsStore(p)
    \/ RsCleanup(p)
    \/ CtorInvoke(p)

\* Init has returned the validation error of A -> B -> A; the constructors
\* stay registered
InitCycle ==
    /\ dc = RegisterAll(New, << <<AB, Singleton>>, <<BA, Singleton>>, <<C0, Singleton>> >>)
    /\ mu = Unlocked
    /\ frames = [p \in Procs |-> <<>>]
    /\ last = [p \in Procs |-> Idle]
    /\ calls = [t \in Types |-> 0]
    /\ ops = 0

NextCycle ==
    \E p \in Procs :
        \/ \E t \in Types : CallResolve(p, t, NoScope)
        \/ StepSingleton(p)

SpecCycle == InitCycle /\ [][NextCycle]_vars

----------------------------------------------------------------------------
(* Goroutines started together, each making one resolve in a registry of   *)
(* Scoped types                                                            *)

\* the steps of a resolve among Scoped and Transient types
StepScoped(p) ==
    \/ RwsLookup(p)
    \/ RscFast(p)
    \/ RscLock(p)
    \/ RscStore(p)
    \/ CtorInvoke(p)

\* the one call of goroutine p
CallResolveOnce(p, t, sid) ==
    /\ last[p] = Idle
    /\ CallResolve(p, t, sid)

\* A is Scoped, B is Transient and needs A, C is Scoped and its constructor
\* can fail
InitScoped ==
    /\ dc = RegisterAll(New, << <<A0, Scoped>>, <<BA, Transient>>, <<C0, Scoped>> >>)
    /\ mu = Unlocked
    /\ frames = [p \in Procs |-> <<>>]
    /\ last = [p \in Procs |-> Idle]
    /\ calls = [t \in Types |-> 0]
    /\ ops = 0

NextScoped ==
    \E p \in Procs :
        \/ \E t \in Concrete, sid \in {NoScope} \cup ScopeIds : CallResolveOnce(p, t, sid)
        \/ StepScoped(p)

SpecScoped == InitScoped /\ [][NextScoped]_vars

----------------------------------------------------------------------------
(* Override, Validate and DestroyScope as the sections of dc.mu they are,  *)
(* next to a caller that resolves                                          *)

\* calls issued in one behaviour
MaxLockOps == 3

Resolver == 1
Mutator == 2

\* the constructors handed to Override
A1 == Ctor("A", <<>>, 20)
C1 == Ctor("C", <<>>, 21)
Replacements == { <<A1, Singleton>>, <<A1, Scoped>>, <<C1, Scoped>> }

RECURSIVE validateWalk(_, _, _, _)
\* the walk of Validate over the roots in the given order: the error it
\* returns and the nodes it has entered
validateWalk(d, order, i, visited) ==
    IF i > Len(order) THEN [err |-> Nil, visited |-> visited]
    ELSE LET r == validateNode(d, order[i], [visited |-> visited, inProgress |-> {}], <<>>) IN
         IF r.err # Nil THEN [err |-> r.err, visited |-> r.st.visited]
         ELSE validateWalk(d, order, i + 1, r.st.visited)

\* the calls of GetInterfaceBinding and GetNamedInterfaceBinding of a walk:
\* one for every interface node it has entered
BindingLookups(w) == Cardinality({k \in w.visited : IsInterface(k.t)})

\* di.Resolve / di.ResolveScoped of the resolving caller
CallResolveLk(p, t, sid) ==
    /\ ~Running(p)
    /\ ops < MaxLockOps
    /\ ops' = ops + 1
    /\ last' = [last EXCEPT ![p] = Call("Resolve", t, "", sid)]
    /\ frames' = [frames EXCEPT ![p] = <<Enter(t, sid, <<>>)>>]
    /\ UNCHANGED <<dc, mu, calls>>

\* di.Override with a well-formed constructor: OverrideConstructor is about
\* to call RegisterConstructorWithScope
CallOverride(p, c, scope) ==
    /\ ~Running(p)
    /\ ops < MaxLockOps
    /\ ops' = ops + 1
    /\ last' = [last EXCEPT ![p] = Call("Override", c.out, "", "")]
    /\ frames' = [frames EXCEPT ![p] =
                     <<[Frame("ov_register", c.out, "", <<>>)
                          EXCEPT !.reg = Registration(c, scope)]>>]
    /\ UNCHANGED <<dc, mu, calls>>

\* di.Validate
CallValidate(p) ==
    /\ ~Running(p)
    /\ ops < MaxLockOps
    /\ ops' = ops + 1
    /\ last' = [last EXCEPT ![p] = Call("Validate", "", "", "")]
    /\ frames' = [frames EXCEPT ![p] = <<Frame("v_begin", "", "", <<>>)>>]
    /\ UNCHANGED <<dc, mu, calls>>

\* di.DestroyScope: the call is made, dc.mu.Lock() is its first statement
CallDestroyScopeLk(p, sid) ==
    /\ ~Running(p)
    /\ ops < MaxLockOps
    /\ ops' = ops + 1
    /\ last' = [last EXCEPT ![p] = Call("DestroyScope", "", "", sid)]
    /\ frames' = [frames EXCEPT ![p] = <<Frame("ds", "", sid, <<>>)>>]
    /\ UNCHANGED <<dc, mu, calls>>

Waiting(pc) ==
    IF pc = "ov_register" THEN "ov_register_wait"
    ELSE IF pc = "ov_evict" THEN "ov_evict_wait"
    ELSE "ds_wait"

\* dc.mu.Lock() is called while the lock is held: the caller blocks in it
LockWait(p) ==
    /\ Running(p)
    /\ Top(p).pc \in {"ov_register", "ov_evict", "ds"}
    /\ ~CanLock
    /\ Goto(p, <<[Top(p) EXCEPT !.pc = Waiting(@)]>>)
    /\ UNCHANGED <<dc, mu, calls, ops>>

\* OverrideConstructor, first section: RegisterConstructorWithScope under the
\* write lock
OvRegister(p) ==
    /\ Running(p)
    /\ Top(p).pc \in {"ov_register", "ov_register_wait"}
    /\ CanLock
    /\ dc' = RegisterConstructorWithScope(dc, Top(p).reg.constructor, Top(p).reg.scope).dc
    /\ Goto(p, <<[Top(p) EXCEPT !.pc = "ov_evict"]>>)
    /\ UNCHANGED <<mu, calls, ops>>

\* OverrideConstructor, second section: the write lock again, the type is
\* deleted from the singleton cache and from every scope partition; then
\* di.Override calls Validate
OvEvict(p) ==
    /\ Running(p)
    /\ Top(p).pc \in {"ov_evict", "ov_evict_wait"}
    /\ CanLock
    /\ dc' = [dc EXCEPT !.dependencies = Del(@, Top(p).t),
                        !.scopedInstances = EvictScoped(@, Top(p).t)]
    /\ Goto(p, <<[Top(p) EXCEPT !.pc = "v_begin"]>>)
    /\ UNCHANGED <<mu, calls, ops>>

\* Validate: dc.mu.RLock(), kept until the walk is over.  The registry cannot
\* change under the read lock, so the walk is fixed here: its result and the
\* number of binding lookups it will make
VBegin(p) ==
    /\ At(p, "v_begin")
    /\ CanRLock
    /\ mu' = [mu EXCEPT !.r = @ + 1]
    /\ \E o \in ValidateOrders(dc) :
          LET w == validateWalk(dc, o, 1, {}) IN
          Goto(p, <<[Top(p) EXCEPT !.pc = "v_walk", !.i = BindingLookups(w),
                                   !.args = <<w.err>>]>>)
    /\ UNCHANGED <<dc, calls, ops>>

\* the walk enters an interface node: GetInterfaceBinding takes and releases
\* the read lock once more
VBind(p) ==
    /\ At(p, "v_walk")
    /\ Top(p).i > 0
    /\ CanRLock
    /\ Goto(p, <<[Top(p) EXCEPT !.i = @ - 1]>>)
    /\ UNCHANGED <<dc, mu, calls, ops>>

\* the walk is over: the deferred RUnlock, and the error is returned
VEnd(p) ==
    /\ At(p, "v_walk")
    /\ Top(p).i = 0
    /\ mu' = [mu EXCEPT !.r = @ - 1]
    /\ LET e == Top(p).args[1] IN
       Return(p, IF e = Nil THEN Ok(Nil) ELSE Fail(e))
    /\ UNCHANGED <<dc, calls, ops>>

\* DestroyScope under the write lock
DsRun(p) ==
    /\ Running(p)
    /\ Top(p).pc \in {"ds", "ds_wait"}
    /\ CanLock
    /\ dc' = DestroyScope(dc, Top(p).sid)
    /\ Return(p, Ok(Nil))
    /\ UNCHANGED <<mu, calls, ops>>

\* B needs the interface I, I is bound to A, C is scoped
InitLock ==
    /\ dc = BindInterface(RegisterAll(New, << <<A0, Singleton>>, <<BI, Singleton>>,
                                              <<C0, Scoped>> >>), "I", "A").dc
    /\ mu = Unlocked
    /\ frames = [p \in Procs |-> <<>>]
    /\ last = [p \in Procs |-> Idle]
    /\ calls = [t \in Types |-> 0]
    /\ ops = 0

NextLock ==
    \/ \E t \in Types, sid \in {NoScope, "s1"} : CallResolveLk(Resolver, t, sid)
    \/ \E sid \in {"s1"} : CallDestroyScopeLk(Resolver, sid)
    \/ StepSeq(Resolver)
    \/ DsRun(Resolver)
    \/ \E r \in Replacements : CallOverride(Mutator, r[1], r[2])
    \/ CallValidate(Mutator)
    \/ OvRegister(Mutator)
    \/ OvEvict(Mutator)
    \/ VBegin(Mutator)
    \/ VBind(Mutator)
    \/ VEnd(Mutator)
    \/ \E p \in Procs : LockWait(p)

SpecLock == InitLock /\ [][NextLock]_vars

----------------------------------------------------------------------------
(* Resolver: named resolution                                              *)

\* entry of resolveNamedWithScope(name, t, scopeID, stack)
EnterNamed(name, t, sid, stack) ==
    [Frame(IF IsInterface(t) THEN "rn_bind" ELSE "rn_lookup", t, sid, stack)
        EXCEPT !.name = name]

\* a wrapped constructor that hands its name down to its parameters
CallNamedConstructorByName(reg, name, t, sid, stack) ==
    LET f == [Frame("ctor", t, sid, stack) EXCEPT !.reg = reg, !.name = name] IN
    IF Len(reg.paramTypes) = 0 THEN <<f>>
    ELSE <<f, EnterNamed(name, reg.paramTypes[1], sid, stack)>>

\* the wrapped constructor of a named registration: its parameters are
\* resolved by resolveWithScope, without the name
CallNamedConstructor(reg, name, t, sid, stack) ==
    LET f == [Frame("ctor", t, sid, stack) EXCEPT !.reg = reg, !.name = name] IN
    IF Len(reg.paramTypes) = 0 THEN <<f>>
    ELSE <<f, Enter(reg.paramTypes[1], sid, stack)>>

HasNamed(d, name, t) == Has(d.namedConstructors, name) /\ Has(d.namedConstructors[name], t)

\* resolveNamedWithScope, interface type: a named binding sends the call to
\* the unnamed resolution of the concrete type
RnBind(p) ==
    /\ At(p, "rn_bind")
    /\ CanRLock
    /\ LET f == Top(p)
           b == GetNamedInterfaceBinding(dc, f.name, f.t)
       IN Goto(p, IF b.ok THEN <<Enter(b.t, f.sid, f.stack)>>
                  ELSE <<[f EXCEPT !.pc = "rn_lookup"]>>)
    /\ UNCHANGED <<dc, mu, calls, ops>>

\* a lookup that sends a Scoped registration on without looking at the scope id
RnLookupAnyScopeId(p) ==
    /\ At(p, "rn_lookup")
    /\ CanRLock
    /\ LET f == Top(p) IN
       IF ~HasNamed(dc, f.name, f.t)
       THEN IF IsInterface(f.t)
            THEN Return(p, Fail(Err("nobindingnamed", f.t, <<>>, Nil)))
            ELSE Goto(p, <<Enter(f.t, f.sid, f.stack)>>)
       ELSE LET reg == dc.namedConstructors[f.name][f.t] IN
            IF reg.scope = Singleton
            THEN Goto(p, <<[f EXCEPT !.pc = "rns_fast", !.reg = reg]>>)
            ELSE IF reg.scope = Transient
            THEN Goto(p, CallNamedConstructor(reg, f.name, f.t, f.sid, f.stack))
            ELSE Goto(p, <<[f EXCEPT !.pc = "rnsc_fast", !.reg = reg]>>)
    /\ UNCHANGED <<dc, mu, calls, ops>>

\* a lookup that sends every type without a named registration to the
\* unnamed resolution
RnLookupFallThrough(p) ==
    /\ At(p, "rn_lookup")
    /\ CanRLock
    /\ LET f == Top(p) IN
       IF ~HasNamed(dc, f.name, f.t)
       THEN Goto(p, <<Enter(f.t, f.sid, f.stack)>>)
       ELSE LET reg == dc.namedConstructors[f.name][f.t] IN
            IF reg.scope = Singleton
            THEN Goto(p, <<[f EXCEPT !.pc = "rns_fast", !.reg = reg]>>)
            ELSE IF reg.scope = Transient
            THEN Goto(p, CallNamedConstructor(reg, f.name, f.t, f.sid, f.stack))
            ELSE IF f.sid = NoScope
            THEN Return(p, Fail(Err("scopenamed", f.t, <<>>, Nil)))
            ELSE Goto(p, <<[f EXCEPT !.pc = "rnsc_fast", !.reg = reg]>>)
    /\ UNCHANGED <<dc, mu, calls, ops>>

\* resolveNamedWithScope: the lookup in namedConstructors under the read lock.
\* Without a named registration an interface is an error and any other type
\* is resolved unnamed; with one, the dispatch on its scope.
RnLookup(p) ==
    /\ At(p, "rn_lookup")
    /\ CanRLock
    /\ LET f == Top(p) IN
       IF ~HasNamed(dc, f.name, f.t)
       THEN IF IsInterface(f.t)
            THEN Return(p, Fail(Err("nobindingnamed", f.t, <<>>, Nil)))
            ELSE Goto(p, <<Enter(f.t, f.sid, f.stack)>>)
       ELSE LET reg == dc.namedConstructors[f.name][f.t] IN
            IF reg.scope = Singleton
            THEN Goto(p, <<[f EXCEPT !.pc = "rns_fast", !.reg = reg]>>)
            ELSE IF reg.scope = Transient
            THEN Goto(p, CallNamedConstructor(reg, f.name, f.t, f.sid, f.stack))
            ELSE IF f.sid = NoScope
            THEN Return(p, Fail(Err("scopenamed", f.t, <<>>, Nil)))
            ELSE Goto(p, <<[f EXCEPT !.pc = "rnsc_fast", !.reg = reg]>>)
    /\ UNCHANGED <<dc, mu, calls, ops>>

HasNamedDependency(d, name, t) ==
    Has(d.namedDependencies, name) /\ Has(d.namedDependencies[name], t)

\* resolveNamedSingleton, fast path under the read lock
RnsFast(p) ==
    /\ At(p, "rns_fast")
    /\ CanRLock
    /\ LET f == Top(p) IN
       IF HasNamedDependency(dc, f.name, f.t)
       THEN Return(p, Ok(dc.namedDependencies[f.name][f.t]))
       ELSE Goto(p, <<[f EXCEPT !.pc = "rns_lock"]>>)
    /\ UNCHANGED <<dc, mu, calls, ops>>

\* resolveNamedSingleton, slow path: dc.mu.Lock() with the unlock deferred;
\* double check, make the map of the name if there is none, call the
\* constructor with scope id "" and the write lock held
RnsLock(p) ==
    /\ At(p, "rns_lock")
    /\ CanLock
    /\ LET f == Top(p) IN
       IF HasNamedDependency(dc, f.name, f.t)
       THEN /\ Return(p, Ok(dc.namedDependencies[f.name][f.t]))
            /\ UNCHANGED <<dc, mu>>
       ELSE /\ dc' = IF Has(dc.namedDependencies, f.name) THEN dc
                     ELSE [dc EXCEPT !.namedDependencies = Put(@, f.name, EmptyMap)]
            /\ mu' = [mu EXCEPT !.w = p]
            /\ Goto(p, <<[f EXCEPT !.pc = "rns_built"]>>
                       \o CallNamedConstructor(f.reg, f.name, f.t, NoScope, f.stack))
    /\ UNCHANGED <<calls, ops>>

\* a store of the named instance in the cache of the unnamed registrations
RnsStoreUnnamed(p) ==
    /\ At(p, "rns_built")
    /\ Top(p).res # Pending
    /\ LET f == Top(p) IN
       /\ dc' = IF f.res.ok
                THEN [dc EXCEPT !.dependencies = Put(@, f.t, f.res.val)]
                ELSE dc
       /\ mu' = [mu EXCEPT !.w = 0]
       /\ Return(p, f.res)
    /\ UNCHANGED <<calls, ops>>

\* the constructor returned: dc.namedDependencies[name][t] = instance unless
\* it failed, release the write lock, return
RnsStore(p) ==
    /\ At(p, "rns_built")
    /\ Top(p).res # Pending
    /\ LET f == Top(p) IN
       /\ dc' = IF f.res.ok
                THEN [dc EXCEPT !.namedDependencies[f.name] = Put(@, f.t, f.res.val)]
                ELSE dc
       /\ mu' = [mu EXCEPT !.w = 0]
       /\ Return(p, f.res)
    /\ UNCHANGED <<calls, ops>>

HasNamedScoped(d, sid, name, t) ==
    /\ Has(d.namedScopedInstances, sid)
    /\ Has(d.namedScopedInstances[sid], name)
    /\ Has(d.namedScopedInstances[sid][name], t)

\* resolveNamedScoped, fast path under the read lock
RnscFast(p) ==
    /\ At(p, "rnsc_fast")
    /\ CanRLock
    /\ LET f == Top(p) IN
       IF HasNamedScoped(dc, f.sid, f.name, f.t)
       THEN Return(p, Ok(dc.namedScopedInstances[f.sid][f.name][f.t]))
       ELSE Goto(p, <<[f EXCEPT !.pc = "rnsc_lock"]>>)
    /\ UNCHANGED <<dc, mu, calls, ops>>

\* the maps of the scope id and of the name under it, made if missing
EnsureNamedScope(d, sid, name) ==
    LET part == IF Has(d.namedScopedInstances, sid)
                THEN d.namedScopedInstances[sid] ELSE EmptyMap
        cache == IF Has(part, name) THEN part[name] ELSE EmptyMap
    IN [d EXCEPT !.namedScopedInstances = Put(@, sid, Put(part, name, cache))]

\* resolveNamedScoped, slow path: dc.mu.Lock() with the unlock deferred; make
\* the maps, double check, call the constructor with the write lock held
RnscLock(p) ==
    /\ At(p, "rnsc_lock")
    /\ CanLock
    /\ dc' = EnsureNamedScope(dc, Top(p).sid, Top(p).name)
    /\ LET f == Top(p) IN
       IF HasNamedScoped(dc, f.sid, f.name, f.t)
       THEN /\ Return(p, Ok(dc.namedScopedInstances[f.sid][f.name][f.t]))
            /\ UNCHANGED mu
       ELSE /\ mu' = [mu EXCEPT !.w = p]
            /\ Goto(p, <<[f EXCEPT !.pc = "rnsc_built"]>>
                       \o CallNamedConstructor(f.reg, f.name, f.t, f.sid, f.stack))
    /\ UNCHANGED <<calls, ops>>

\* the constructor returned: store the instance under (scope id, name, type)
\* unless it failed, release the write lock, return
RnscStore(p) ==
    /\ At(p, "rnsc_built")
    /\ Top(p).res # Pending
    /\ LET f == Top(p) IN
       /\ dc' = IF f.res.ok
                THEN [dc EXCEPT !.namedScopedInstances[f.sid][f.name] = Put(@, f.t, f.res.val)]
                ELSE dc
       /\ mu' = [mu EXCEPT !.w = 0]
       /\ Return(p, f.res)
    /\ UNCHANGED <<calls, ops>>

\* the steps of named resolution
StepNamed(p) ==
    \/ RnBind(p)
    \/ RnLookup(p)
    \/ RnsFast(p)
    \/ RnsLock(p)
    \/ RnsStore(p)
    \/ RnscFast(p)
    \/ RnscLock(p)
    \/ RnscStore(p)

----------------------------------------------------------------------------
(* Named registrations, named bindings and providers, used by one caller   *)

\* calls issued in one behaviour of the caller of named resolution
MaxNamedOps == 4

BindingNames == {"n", "m"}

\* the constructors registered under names
NA == Ctor("A", <<>>, 11)
MA == Ctor("A", <<>>, 12)
NB == Ctor("B", <<"A">>, 13)
NC == CtorE("C", <<>>, 14)
MC == Ctor("C", <<>>, 15)
\* a constructor whose return type is the interface
NI == Ctor("I", <<>>, 17)
\* constructors of the interface that return nil
INil == CtorNil("I", 22)
NINil == CtorNil("I", 23)
\* constructors with a parameter, registered Scoped
CB == Ctor("C", <<"B">>, 18)
MCB == Ctor("C", <<"B">>, 19)

RECURSIVE Setup(_, _)
\* the registrations and bindings of cmds made one after the other, as the
\* container operations make them
Setup(d, cmds) ==
    IF Len(cmds) = 0 THEN d
    ELSE LET c == cmds[1]
             r == IF c[1] = "register"
                  THEN RegisterConstructorWithScope(d, c[2], c[3])
                  ELSE IF c[1] = "named"
                  THEN RegisterNamedConstructorWithScope(d, c[2], c[3], c[4])
                  ELSE IF c[1] = "bind"
                  THEN BindInterface(d, c[2], c[3])
                  ELSE BindInterfaceNamed(d, c[2], c[3], c[4])
         IN Setup(r.dc, SubSeq(cmds, 2, Len(cmds)))

\* the registries the caller resolves in
NamedRegistries ==
    { \* one type under two names and unnamed; an interface bound unnamed and
      \* under one of the names
      << <<"register", A0, Singleton>>, <<"register", B0, Singleton>>,
         <<"named", "n", NA, Singleton>>, <<"named", "m", MA, Singleton>>,
         <<"bind", "I", "A">>, <<"bindnamed", "n", "I", "B">> >>,
      \* scoped and transient registrations of one type, unnamed and named; a
      \* named singleton with a parameter
      << <<"register", A0, Singleton>>, <<"register", C0, Scoped>>,
         <<"named", "n", NC, Scoped>>, <<"named", "m", MC, Transient>>,
         <<"named", "n", NB, Singleton>>, <<"named", "m", MA, Scoped>> >>,
      \* an interface bound unnamed and registered itself under one name
      << <<"register", A0, Singleton>>, <<"bind", "I", "A">>,
         <<"named", "n", NI, Singleton>> >>,
      \* one type scoped unnamed only, another scoped under a name only
      \* and a scoped type with a parameter, unnamed and under a name
      << <<"register", B0, Scoped>>, <<"named", "n", NA, Scoped>>,
         <<"register", CB, Scoped>>, <<"named", "m", MCB, Scoped>> >>,
      \* a named transient whose parameter type is registered unnamed and
      \* under the same name
      << <<"register", A0, Singleton>>, <<"named", "n", NA, Singleton>>,
         <<"named", "n", NB, Transient>> >>,
      \* the same, the parameter type registered under the name only
      << <<"named", "n", NA, Singleton>>, <<"named", "n", NB, Transient>> >>,
      \* an interface whose constructors return nil, unnamed and under a name
      << <<"register", INil, Singleton>>, <<"named", "n", NINil, Transient>>,
         <<"register", A0, Singleton>> >> }

\* di.ResolveNamed / di.ResolveNamedScoped:
\* dc.resolveNamedWithScope(name, t, scopeID, nil)
CallResolveNamed(p, name, t, sid) ==
    /\ ~Running(p)
    /\ ops < MaxNamedOps
    /\ ops' = ops + 1
    /\ last' = [last EXCEPT ![p] = Call("ResolveNamed", t, name, sid)]
    /\ frames' = [frames EXCEPT ![p] = <<EnterNamed(name, t, sid, <<>>)>>]
    /\ UNCHANGED <<dc, mu, calls>>

\* di.Resolve / di.ResolveScoped of the same caller
CallResolveUnnamed(p, t, sid) ==
    /\ ~Running(p)
    /\ ops < MaxNamedOps
    /\ ops' = ops + 1
    /\ last' = [last EXCEPT ![p] = Call("Resolve", t, "", sid)]
    /\ frames' = [frames EXCEPT ![p] = <<Enter(t, sid, <<>>)>>]
    /\ UNCHANGED <<dc, mu, calls>>

\* the (type, name, scope id) the caller makes providers of
ProviderKeys ==
    { <<"A", "", NoScope>>, <<"A", "n", NoScope>>, <<"I", "", NoScope>>,
      <<"C", "", "s1">>, <<"C", "n", "s1">>, <<"C", "m", "s1">>, <<"C", "", NoScope>> }

\* a provider that resolves its key when it is made
CallNewProviderEager(p, t, name, sid) ==
    /\ ~Running(p)
    /\ ops < MaxNamedOps
    /\ ops' = ops + 1
    /\ last' = [last EXCEPT ![p] = Call("NewProvider", t, name, sid)]
    /\ frames' = [frames EXCEPT ![p] =
                     IF name # "" THEN <<EnterNamed(name, t, sid, <<>>)>>
                     ELSE <<Enter(t, sid, <<>>)>>]
    /\ UNCHANGED <<dc, mu, calls>>

\* container.NewProvider[T](dc, scopeID, name): the provider holds the three
\* and nothing is resolved
CallNewProvider(p, t, name, sid) ==
    /\ ~Running(p)
    /\ ops < MaxNamedOps
    /\ ops' = ops + 1
    /\ last' = [last EXCEPT ![p] = Returned(Call("NewProvider", t, name, sid), Ok(Nil))]
    /\ UNCHANGED <<dc, mu, frames, calls>>

\* provider.Get of the provider the caller made last: ResolveNamedWithScope
\* if the provider has a name, ResolveWithScope if it has none
CallGet(p) ==
    /\ ~Running(p)
    /\ ops < MaxNamedOps
    /\ last[p].op \in {"NewProvider", "Get"}
    /\ ops' = ops + 1
    /\ LET h == last[p] IN
       /\ last' = [last EXCEPT ![p] = After(Call("Get", h.t, h.name, h.sid), h)]
       /\ frames' = [frames EXCEPT ![p] =
                        IF h.name # "" THEN <<EnterNamed(h.name, h.t, h.sid, <<>>)>>
                        ELSE <<Enter(h.t, h.sid, <<>>)>>]
    /\ UNCHANGED <<dc, mu, calls>>

\* di.DestroyScope by the same caller
CallDestroyScopeSeq(p, sid) ==
    /\ ~Running(p)
    /\ ops < MaxNamedOps
    /\ CanLock
    /\ dc' = DestroyScope(dc, sid)
    /\ last' = [last EXCEPT ![p] =
                  Returned(Call("DestroyScope", "", "", sid), Ok(Nil))]
    /\ ops' = ops + 1
    /\ UNCHANGED <<mu, frames, calls>>

\* DestroyAllScopes by the same caller
CallDestroyAllScopes(p) ==
    /\ ~Running(p)
    /\ ops < MaxNamedOps
    /\ CanLock
    /\ dc' = DestroyAllScopes(dc)
    /\ last' = [last EXCEPT ![p] =
                  Returned(Call("DestroyAllScopes", "", "", ""), Ok(Nil))]
    /\ ops' = ops + 1
    /\ UNCHANGED <<mu, frames, calls>>

InitNamed ==
    /\ \E g \in NamedRegistries : dc = Setup(New, g)
    /\ mu = Unlocked
    /\ frames = [p \in Procs |-> <<>>]
    /\ last = [p \in Procs |-> Idle]
    /\ calls = [t \in Types |-> 0]
    /\ ops = 0

NextNamed ==
    \/ \E n \in BindingNames, t \in Types, sid \in {NoScope, "s1"} :
          CallResolveNamed(Main, n, t, sid)
    \/ \E t \in Types, sid \in {NoScope, "s1"} : CallResolveUnnamed(Main, t, sid)
    \/ \E k \in ProviderKeys : CallNewProvider(Main, k[1], k[2], k[3])
    \/ CallGet(Main)
    \/ \E sid \in ScopeIds : CallDestroyScopeSeq(Main, sid)
    \/ CallDestroyAllScopes(Main)
    \/ StepSeq(Main)
    \/ StepNamed(Main)

SpecNamed == InitNamed /\ [][NextNamed]_vars

----------------------------------------------------------------------------
(* Properties                                                              *)

\* process p's last call was op on type t and returned a value
Succeeded(p, op, t) ==
    /\ last[p].op = op
    /\ last[p].t = t
    /\ last[p].res # Pending
    /\ last[p].res.ok

\* process p's last call was op on type t and returned an error
Failed(p, op, t) ==
    /\ last[p].op = op
    /\ last[p].t = t
    /\ last[p].res # Pending
    /\ ~last[p].res.ok

\* t is registered as an unnamed singleton whose constructor cannot fail
SafeSingleton(t) ==
    /\ Has(dc.constructors, t)
    /\ dc.constructors[t].scope = Singleton
    /\ ~dc.constructors[t].constructor.mayFail

\* C1: for a registered unnamed Singleton whose constructor does not fail, in
\* a registry that is not mutated, the constructor is invoked at most once,
\* and every Resolve of the type that has returned, from whichever caller,
\* returned the one instance that invocation made, which is the cached one.
C1_SingletonOnce ==
    \A t \in Concrete :
        SafeSingleton(t) =>
            /\ calls[t] <= 1
            /\ \A p \in Procs :
                  Succeeded(p, "Resolve", t) =>
                      /\ calls[t] = 1
                      /\ Has(dc.dependencies, t)
                      /\ last[p].res.val = dc.dependencies[t]
            /\ \A p, q \in Procs :
                  Succeeded(p, "Resolve", t) /\ Succeeded(q, "Resolve", t)
                      => last[p].res.val = last[q].res.val

\* the builder has returned the instance and a caller that waited on its
\* build has been released, with one constructor call made
C1_Witness ==
    \E t \in Concrete, p, q \in Procs :
        /\ p # q
        /\ SafeSingleton(t)
        /\ Succeeded(p, "Resolve", t)
        /\ At(q, "rs_wait") /\ Top(q).t = t /\ Top(q).woken
        /\ calls[t] = 1

----------------------------------------------------------------------------
(* Cache tiers                                                             *)

\* the entries held for type t in the four tiers: singleton, scope partition,
\* named singleton, named scope partition
CacheEntries(d, t) ==
    {<<"singleton", "", "", d.dependencies[x]>> : x \in {t} \cap DOMAIN d.dependencies}
    \cup {<<"scope", sid, "", d.scopedInstances[sid][t]>> :
            sid \in {x \in DOMAIN d.scopedInstances : Has(d.scopedInstances[x], t)}}
    \cup {<<"named", "", n, d.namedDependencies[n][t]>> :
            n \in {x \in DOMAIN d.namedDependencies : Has(d.namedDependencies[x], t)}}
    \cup UNION {{<<"namedscope", sid, n, d.namedScopedInstances[sid][n][t]>> :
                    n \in {x \in DOMAIN d.namedScopedInstances[sid] :
                              Has(d.namedScopedInstances[sid][x], t)}} :
                sid \in DOMAIN d.namedScopedInstances}

CachedValues(d, t) == {e[4] : e \in CacheEntries(d, t)}

\* the type an unnamed resolve of t looks up: the bound concrete type of a
\* bound interface, t itself otherwise
Target(d, t) ==
    IF IsInterface(t) /\ GetInterfaceBinding(d, t).ok THEN GetInterfaceBinding(d, t).t ELSE t

RegisteredAs(d, t, scope) == Has(d.constructors, t) /\ d.constructors[t].scope = scope

\* how often x occurs in the sequence s
Count(s, x) == Cardinality({k \in 1..Len(s) : s[k] = x})

\* this step returns process p's Resolve
Returns(p) ==
    /\ last[p].op = "Resolve"
    /\ last[p].res = Pending
    /\ last'[p].res # Pending

\* C2: no step adds a cache entry, in any of the four tiers, for a type that is
\* registered Transient; and a Resolve of a Transient registration that
\* returns an instance returns the object made by the constructor call of the
\* returning step, the only call of that constructor the resolve made, which
\* is none of the cached values (an entry left from an earlier Singleton
\* registration of the type is not consulted).
C2_Transient ==
    [][ /\ \A t \in Concrete :
              RegisteredAs(dc, t, Transient) /\ RegisteredAs(dc', t, Transient)
                  => CacheEntries(dc', t) \subseteq CacheEntries(dc, t)
        /\ \A p \in Procs :
              LET t == Target(dc, last[p].t) IN
              Returns(p) /\ last'[p].res.ok /\ RegisteredAs(dc, t, Transient) =>
                  /\ calls'[t] = calls[t] + 1
                  /\ last'[p].res.val.t = t
                  /\ last'[p].res.val.n = calls'[t]
                  /\ Count(last'[p].made, t) = 1
                  /\ last'[p].res.val \notin CachedValues(dc', t)
      ]_vars

\* a type cached as a Singleton was registered again as Transient and then
\* resolved: the cache still holds the old instance, the resolve made a new one
C2_Witness ==
    \E t \in Concrete :
        /\ RegisteredAs(dc, t, Transient)
        /\ Succeeded(Main, "Resolve", t)
        /\ Has(dc.dependencies, t)
        /\ last[Main].res.val # dc.dependencies[t]
        /\ calls[t] = 2

\* process p's step is DestroyScope(sid)
Destroys(p, sid) ==
    /\ ops' = ops + 1
    /\ last'[p].op = "DestroyScope"
    /\ last'[p].sid = sid

\* C3: for a Scoped registration, a Resolve under scope id s that returns an
\* instance returns the one held in partition s; an entry of a partition is
\* never replaced, and it is removed only by DestroyScope of its own scope id,
\* so that resolves under one id return one instance and DestroyScope(s1)
\* leaves the instance cached under another id s2 unchanged; the instances
\* held under two different scope ids are different objects.
C3_Scoped ==
    [][ \A t \in Concrete :
          RegisteredAs(dc, t, Scoped) =>
            /\ \A p \in Procs :
                  Returns(p) /\ last[p].t = t /\ last'[p].res.ok =>
                      /\ Has(dc'.scopedInstances, last[p].sid)
                      /\ Has(dc'.scopedInstances[last[p].sid], t)
                      /\ last'[p].res.val = dc'.scopedInstances[last[p].sid][t]
            /\ \A s \in DOMAIN dc.scopedInstances :
                  Has(dc.scopedInstances[s], t) =>
                      IF Has(dc'.scopedInstances, s) /\ Has(dc'.scopedInstances[s], t)
                      THEN dc'.scopedInstances[s][t] = dc.scopedInstances[s][t]
                      ELSE \E p \in Procs : Destroys(p, s)
            /\ \A s1, s2 \in DOMAIN dc'.scopedInstances :
                  s1 # s2 /\ Has(dc'.scopedInstances[s1], t) /\ Has(dc'.scopedInstances[s2], t)
                      => dc'.scopedInstances[s1][t] # dc'.scopedInstances[s2][t]
      ]_vars

\* the type was resolved under s1 and under s2, s1 has been destroyed, and the
\* instance returned under s2 is still the one its partition holds
C3_Witness ==
    \E t \in Concrete, p, q \in Procs :
        /\ RegisteredAs(dc, t, Scoped)
        /\ last[p].op = "DestroyScope" /\ last[p].sid = "s1"
        /\ Succeeded(q, "Resolve", t) /\ last[q].sid = "s2"
        /\ ~Has(dc.scopedInstances, "s1")
        /\ Has(dc.scopedInstances, "s2") /\ Has(dc.scopedInstances["s2"], t)
        /\ last[q].res.val = dc.scopedInstances["s2"][t]
        /\ calls[t] = 2

----------------------------------------------------------------------------
(* The registry as a graph                                                 *)

Range(s) == {s[k] : k \in 1..Len(s)}

Bound(d, i) == GetInterfaceBinding(d, i).ok

\* the edges the validator walks: a registered concrete type to its
\* parameter types, a bound interface to its concrete type
WalkEdge(d, a, b) ==
    IF IsInterface(a) THEN Bound(d, a) /\ b = GetInterfaceBinding(d, a).t
    ELSE Has(d.constructors, a) /\ b \in Range(d.constructors[a].paramTypes)

\* the edges the resolver descends: a registered type to the types its
\* parameters are looked up as
Deps(d, a) ==
    IF Has(d.constructors, a)
    THEN {Target(d, q) : q \in Range(d.constructors[a].paramTypes)}
    ELSE {}

DepEdge(d, a, b) == b \in Deps(d, a)

RECURSIVE Closure(_, _)
Closure(d, S) ==
    LET N == S \cup UNION {Deps(d, x) : x \in S} IN
    IF N = S THEN S ELSE Closure(d, N)

\* the types a resolve of t descends into
Reach(d, t) == Closure(d, Deps(d, t))

OnCycle(d, t) == t \in Reach(d, t)
HasCycle(d) == \E t \in Types : OnCycle(d, t)

\* every parameter type of every registration, unnamed or named
AllParams(d) ==
    UNION {Range(d.constructors[t].paramTypes) : t \in DOMAIN d.constructors}
    \cup UNION {UNION {Range(d.namedConstructors[n][t].paramTypes) :
                          t \in DOMAIN d.namedConstructors[n]} :
                n \in DOMAIN d.namedConstructors}

\* q has no registration and, if it is an interface, no binding either
Missing(d, q) == ~Has(d.constructors, q) /\ (IsInterface(q) => ~Bound(d, q))

\* the unnamed nodes of the walk that the validator cannot pass: a concrete
\* type without registration, an interface without binding
Lacking(d) ==
    {q \in AllParams(d) \cup DOMAIN d.constructors :
        IF IsInterface(q) THEN ~Bound(d, q) ELSE ~Has(d.constructors, q)}

\* ch lists a cycle of the graph with edges E in path order: it starts and
\* ends at one type, names no other type twice, and each type is followed by
\* one it depends on
ClosedPath(d, ch, E(_, _, _)) ==
    /\ Len(ch) >= 2
    /\ ch[1] = ch[Len(ch)]
    /\ \A j, k \in 1..(Len(ch) - 1) : ch[j] = ch[k] => j = k
    /\ \A k \in 1..(Len(ch) - 1) : E(d, ch[k], ch[k + 1])

\* the chain from the first occurrence of its last element on
CyclePart(ch) ==
    LET k == CHOOSE i \in 1..Len(ch) :
                 ch[i] = ch[Len(ch)] /\ \A j \in 1..(i - 1) : ch[j] # ch[Len(ch)]
    IN SubSeq(ch, k, Len(ch))

\* the types of a chain of validator nodes
NodeTypes(ch) == [k \in 1..Len(ch) |-> ch[k].t]

\* the caller's last call has returned
Done(p, op) == last[p].op = op /\ last[p].res # Pending

\* C4 as stated: in a registry with a cycle, Validate and Init fail with a
\* circular-dependency error whose chain lists the cycle in path order, and
\* so does the Resolve of a type on the cycle that is not cached, with the
\* chain starting at that type.
C4_AnyRegistry ==
    /\ (\/ Done(Main, "Validate")
        \/ Done(Main, "Init") /\ (last[Main].res.ok \/ last[Main].res.err.kind # "invalid"))
       /\ HasCycle(dc)
       => /\ ~last[Main].res.ok
          /\ last[Main].res.err.kind = "circular"
          /\ ClosedPath(dc, NodeTypes(CyclePart(last[Main].res.err.chain)), WalkEdge)
    /\ \A t \in Types :
          LET tt == Target(dc, t) IN
          /\ Done(Main, "Resolve") /\ last[Main].t = t
          /\ OnCycle(dc, tt)
          /\ \A u \in Reach(dc, tt) : CacheEntries(dc, u) = {}
          => /\ ~last[Main].res.ok
             /\ RootCause(last[Main].res.err).kind = "circular"
             /\ RootCause(last[Main].res.err).chain[1] = tt
             /\ ClosedPath(dc, RootCause(last[Main].res.err).chain, DepEdge)

\* C4: in a registry with a cycle and with nothing missing (every parameter
\* type registered or bound, every registered interface bound), Validate and
\* Init fail with a circular-dependency error whose chain ends with a cycle of
\* the registry listed in path order; a Resolve of a type on the cycle, none
\* of the cycle's types cached, that returns fails, either with a
\* circular-dependency error whose chain is a path of the registry from that
\* type that ends with a cycle listed in path order (the first cycle the
\* descent closes: with overlapping cycles not always one through that type),
\* or, called without scope id, with the scope-required error of a Scoped
\* type on the cycle.
C4_Cycles ==
    Lacking(dc) = {} =>
    /\ (\/ Done(Main, "Validate")
        \/ Done(Main, "Init") /\ (last[Main].res.ok \/ last[Main].res.err.kind # "invalid"))
       /\ HasCycle(dc)
       => /\ ~last[Main].res.ok
          /\ last[Main].res.err.kind = "circular"
          /\ ClosedPath(dc, NodeTypes(CyclePart(last[Main].res.err.chain)), WalkEdge)
    /\ \A t \in Types :
          LET tt == Target(dc, t) IN
          /\ Done(Main, "Resolve") /\ last[Main].t = t
          /\ OnCycle(dc, tt)
          /\ \A u \in Reach(dc, tt) : CacheEntries(dc, u) = {}
          => /\ ~last[Main].res.ok
             /\ LET e == RootCause(last[Main].res.err) IN
                \/ /\ e.kind = "circular"
                   /\ e.chain[1] = tt
                   /\ \A k \in 1..(Len(e.chain) - 1) : DepEdge(dc, e.chain[k], e.chain[k + 1])
                   /\ \A j, k \in 1..(Len(e.chain) - 1) : e.chain[j] = e.chain[k] => j = k
                   /\ ClosedPath(dc, CyclePart(e.chain), DepEdge)
                \/ /\ e.kind = "scope"
                   /\ last[Main].sid = NoScope
                   /\ e.t \in Reach(dc, tt)
                   /\ RegisteredAs(dc, e.t, Scoped)

\* the three-node cycle A -> B -> C -> A entered at C: the Resolve of C has
\* failed with the chain C, A, B, C
C4_Witness ==
    /\ Lacking(dc) = {}
    /\ Done(Main, "Resolve") /\ last[Main].t = "C"
    /\ ~last[Main].res.ok
    /\ RootCause(last[Main].res.err).kind = "circular"
    /\ RootCause(last[Main].res.err).chain = <<"C", "A", "B", "C">>

\* the index of the first parameter of registration reg that is missing
FirstMissing(d, reg) ==
    CHOOSE j \in 1..Len(reg.paramTypes) :
        /\ Missing(d, reg.paramTypes[j])
        /\ \A k \in 1..(j - 1) : ~Missing(d, reg.paramTypes[k])

NeedsMissing(d, t) ==
    Has(d.constructors, t) /\ \E q \in Range(d.constructors[t].paramTypes) : Missing(d, q)

\* C5: when a registered type t needs a parameter type q that has no
\* registration and no binding, and q is all the registry lacks (no other
\* missing type, no unbound interface, no cycle), Validate fails with the
\* no-constructor error naming q; and a Resolve of t, nothing cached for t,
\* that returns fails with the no-constructor error for q, wrapped as the
\* failure of that parameter (unless an earlier parameter failed, or t is
\* Scoped and the call gave no scope id).
C5_MissingParameter ==
    \A t \in Concrete :
        NeedsMissing(dc, t) =>
            LET j == FirstMissing(dc, dc.constructors[t])
                q == dc.constructors[t].paramTypes[j]
            IN
            /\ Done(Main, "Validate") /\ Lacking(dc) = {q} /\ ~HasCycle(dc) =>
                  /\ ~last[Main].res.ok
                  /\ last[Main].res.err.kind = "noctor"
                  /\ last[Main].res.err.t = q
            /\ Done(Main, "Resolve") /\ last[Main].t = t /\ CacheEntries(dc, t) = {} =>
                  /\ ~last[Main].res.ok
                  /\ LET e == last[Main].res.err.cause IN
                     \/ /\ e.kind = "param" /\ e.i = j /\ e.t = q
                        /\ e.cause = Err("noctor", q, <<>>, Nil)
                     \/ e.kind = "param" /\ e.i < j
                     \/ /\ e.kind = "scope" /\ e.t = t
                        /\ last[Main].sid = NoScope
                        /\ RegisteredAs(dc, t, Scoped)

\* the entry points that change the registry
Mutators ==
    {"Init", "InitWithScope", "RegisterRuntime", "RegisterRuntimeBatch",
     "RegisterRuntimeWithScopes", "RegisterNamedConstructor", "Override",
     "OverrideNamed", "BindInterface", "BindInterfaceNamed"}

\* the registry graph has no cycle and no missing dependency
GraphValid(d) == ~HasCycle(d) /\ \A q \in AllParams(d) : ~Missing(d, q)

\* C6: whenever a mutating entry point has returned, with nil or with an
\* error, the registry graph of the container has no cycle and no missing
\* dependency.
C6_NeverInvalid ==
    \A op \in Mutators : Done(Main, op) => GraphValid(dc)

\* the errors with which an entry point turns its arguments down before it
\* changes anything: not a constructor, not an interface, not implemented, no
\* constructor for the concrete type of a binding
Rejection(e) == e.kind \in {"invalid", "panic", "notinterface", "notimplemented", "noctor"}

\* C7: a mutating entry point that has returned returned an error if the
\* registry it left has a cycle or a missing dependency, and returned nil if
\* that registry is valid (unless it turned its arguments down).
C7_ErrorIffInvalid ==
    \A op \in Mutators :
        Done(Main, op) =>
            /\ ~GraphValid(dc) => ~last[Main].res.ok
            /\ GraphValid(dc) => last[Main].res.ok \/ Rejection(last[Main].res.err)

\* this step is a call of Override for type t that returns nil
Overrides(t) ==
    /\ ops' = ops + 1
    /\ last'[Main].op = "Override"
    /\ last'[Main].t = t
    /\ last'[Main].res.ok

\* C8: a successful Override of T leaves T out of the singleton cache and out
\* of every scope partition, with one of the overriding constructors
\* registered; and the Resolve of T that follows it (under a scope id if T is
\* now Scoped), if it returns an instance, has invoked the registered, new
\* constructor once and returns and caches the object that call made, a new
\* one.
C8_Override ==
    /\ [][\A t \in Concrete :
            Overrides(t) =>
                /\ ~Has(dc'.dependencies, t)
                /\ \A sid \in DOMAIN dc'.scopedInstances : ~Has(dc'.scopedInstances[sid], t)
                /\ \E r \in OverrideRegs : dc'.constructors[t] = Registration(r[1], r[2])
         ]_vars
    /\ [](\A t \in Concrete :
            /\ Succeeded(Main, "Resolve", t)
            /\ last[Main].after = [op |-> "Override", t |-> t, ok |-> TRUE]
            /\ ~RegisteredAs(dc, t, Transient)
            => /\ Count(last[Main].made, t) = 1
               /\ last[Main].res.val.n = calls[t]
               /\ last[Main].res.val.ver = dc.constructors[t].constructor.ver
               /\ last[Main].res.val \in CachedValues(dc, t))

\* A was built and cached, then overridden by the constructor A0, then
\* resolved again: the second object, made by A0, is the cached one
C8_Witness ==
    /\ Succeeded(Main, "Resolve", "A")
    /\ last[Main].after = [op |-> "Override", t |-> "A", ok |-> TRUE]
    /\ RegisteredAs(dc, "A", Singleton)
    /\ calls["A"] = 2
    /\ last[Main].res.val = Instance("A", 2, A0.ver, <<>>)
    /\ dc.dependencies["A"] = last[Main].res.val

\* the error a failing (T, error) constructor of type t returns
CtorError(t) == Err("ctor", t, <<>>, Nil)

\* this step returns process p's Resolve of type t (or of an interface bound
\* to t) with the error of t's own constructor
ReturnsCtorError(p, t) ==
    /\ Returns(p)
    /\ Target(dc, last[p].t) = t
    /\ ~last'[p].res.ok
    /\ last'[p].res.err = Err("resolve", last[p].t, <<>>, CtorError(t))

\* a Resolve of t by p that has returned after invoking t's constructor
\* returned the instance or the constructor's error, wrapped by di.Resolve only
ErrorOrInstance(p, t) ==
    Done(p, "Resolve") /\ Target(dc, last[p].t) = t /\ Count(last[p].made, t) > 0 =>
        IF last[p].res.ok THEN last[p].res.val # Nil
        ELSE last[p].res.err = Err("resolve", last[p].t, <<>>, CtorError(t))

\* C9 as stated: when the Resolve of T returns the error of T's constructor,
\* no cache tier holds an entry for T.
C9_NoEntryAtAll ==
    [][\A p \in Procs, t \in Concrete :
          ReturnsCtorError(p, t) => CacheEntries(dc', t) = {}]_vars

\* C9: a Resolve of T that invoked T's constructor returns either an
\* instance or, if the constructor returned an error, that error (wrapped
\* only by di.Resolve's message); and the step that returns the error adds no
\* entry for T to any tier and leaves the slot T was being built for empty:
\* the singleton cache for a Singleton, the partition of the call's scope id
\* for a Scoped registration.
C9_ConstructorError ==
    /\ [](\A p \in Procs, t \in Concrete : ErrorOrInstance(p, t))
    /\ [][\A p \in Procs, t \in Concrete :
            ReturnsCtorError(p, t) =>
                /\ CacheEntries(dc', t) = CacheEntries(dc, t)
                /\ RegisteredAs(dc, t, Singleton) => ~Has(dc'.dependencies, t)
                /\ RegisteredAs(dc, t, Scoped) =>
                      \A sid \in {last[p].sid} \cap DOMAIN dc'.scopedInstances :
                          ~Has(dc'.scopedInstances[sid], t)
         ]_vars

\* the Scoped type C, cached under one scope id, was resolved under another
\* and its constructor failed: the call returned that error, the partition of
\* its scope id holds no C
C9_Witness ==
    \E p \in Procs, sid \in ScopeIds :
        /\ RegisteredAs(dc, "C", Scoped)
        /\ Done(p, "Resolve") /\ last[p].t = "C" /\ last[p].sid = sid
        /\ ~last[p].res.ok
        /\ last[p].res.err.cause = CtorError("C")
        /\ Has(dc.scopedInstances, sid) /\ ~Has(dc.scopedInstances[sid], "C")
        /\ CacheEntries(dc, "C") # {}

\* the frames of every process that are builds of a Singleton under way
Builders(t) ==
    {<<p, k>> \in Procs \X (1..4) :
        /\ k <= Len(frames[p])
        /\ frames[p][k].t = t
        /\ frames[p][k].pc \in {"rs_built", "rs_cleanup"}}

\* this step ends a failed Singleton or Scoped build of process p
FailedBuildEnds(p) ==
    /\ Running(p)
    /\ Top(p).pc \in {"rs_built", "rsc_built"}
    /\ Top(p).res # Pending
    /\ ~Top(p).res.ok
    /\ frames'[p] # frames[p]

\* C10: an in-progress marker is held only while the build that set it is
\* under way, and the write lock of a Scoped build only by a caller inside
\* that build, so none is left by a call that has returned; the step that
\* ends a failed build changes no cache entry, no registration and no
\* binding; and a Resolve that returns a constructor's error has invoked that
\* constructor itself: a failure is never kept and handed to a later call.
C10_RetryAfterFailure ==
    /\ [](/\ \A t \in dc.inProgress : Builders(t) # {}
          /\ \A p \in Procs :
                mu.w = p => \E k \in 1..Len(frames[p]) : frames[p][k].pc = "rsc_built"
          /\ \A p \in Procs :
                Done(p, "Resolve") /\ ~last[p].res.ok
                /\ RootCause(last[p].res.err).kind = "ctor"
                => Count(last[p].made, RootCause(last[p].res.err).t) > 0)
    /\ [][\A p \in Procs :
            FailedBuildEnds(p) =>
                /\ \A u \in Types : CacheEntries(dc', u) = CacheEntries(dc, u)
                /\ dc'.constructors = dc.constructors
                /\ dc'.namedConstructors = dc.namedConstructors
                /\ dc'.interfaceBindings = dc.interfaceBindings
                /\ dc'.namedInterfaceBindings = dc.namedInterfaceBindings
                /\ Top(p).pc = "rs_built" => Top(p).t \notin dc'.inProgress
         ]_vars

\* the constructor of the Singleton A failed for one caller and, called
\* again, made the instance another caller got: two calls, no marker left
C10_Witness ==
    \E p, q \in Procs :
        /\ RegisteredAs(dc, "A", Singleton)
        /\ Failed(p, "Resolve", "A")
        /\ last[p].res.err.cause = CtorError("A")
        /\ Succeeded(q, "Resolve", "A")
        /\ calls["A"] = 2
        /\ last[q].res.val = Instance("A", 2, 1, <<>>)
        /\ dc.inProgress = {}
        /\ mu = Unlocked

----------------------------------------------------------------------------
(* Registration order                                                      *)

\* constructors the container accepts, no two of one produced type
DistinctConstructors(cs) ==
    /\ \A k \in 1..Len(cs) : SignatureError(cs[k]) = Nil
    /\ \A j, k \in 1..Len(cs) : cs[j].out = cs[k].out => j = k

\* the orders in which the constructors of cs can be handed to Init
Reorderings(cs) == Orders(Range(cs))

RECURSIVE Built(_, _)
\* the object a first resolve of t builds from the registrations of d: made
\* by the registered constructor from the objects its parameters resolve to
Built(d, t) ==
    LET reg == d.constructors[t] IN
    Instance(t, 1, reg.constructor.ver,
             [k \in 1..Len(reg.paramTypes) |-> Built(d, Target(d, reg.paramTypes[k]))])

\* C11: an Init that registers the constructors cs, of distinct produced
\* types, and turns none down leaves the registry that Init of every permutation of cs leaves,
\* none of them turned down; whether Validate, and so Init, succeeds on a
\* registry does not depend on the order in which the walk takes the roots;
\* and the object graph the first resolve after it returns is the one the
\* registry determines, each object made by the registered constructor from
\* the objects of its parameter types.
C11_OrderIndependence ==
    /\ [][\A cs \in InitBatches :
            /\ last'[Main].op = "Init" /\ ops' = ops + 1
            /\ DistinctConstructors(cs)
            /\ last'[Main].res.ok \/ last'[Main].res.err.kind # "invalid"
            /\ dc' = RegisterEach(dc, WithScope(cs, Singleton)).dc
            => \A o \in Reorderings(cs) :
                  LET r == RegisterEach(dc, WithScope(o, Singleton)) IN
                  /\ r.err = Nil
                  /\ dc' = r.dc
                  /\ LET v == Validate(r.dc) IN
                     /\ Nil \in v => v = {Nil}
                     /\ last'[Main].res.ok <=> v = {Nil}
         ]_vars
    /\ [](\A t \in Types :
            ops = 2 /\ Succeeded(Main, "Resolve", t)
                => last[Main].res.val = Built(dc, Target(dc, t)))

\* Init was given A, which needs B, before B: the Resolve of A that followed
\* returned an A holding the B
C11_Witness ==
    /\ ops = 2
    /\ dc.constructors = RegisterEach(New, WithScope(<<AB, B0>>, Singleton)).dc.constructors
    /\ Succeeded(Main, "Resolve", "A")
    /\ last[Main].res.val = Instance("A", 1, 2, <<Instance("B", 1, 4, <<>>)>>)

----------------------------------------------------------------------------
(* The graph the validator walks                                           *)

\* the nodes a node of the walk leads to: a bound interface to its concrete
\* type, a registration to its parameter types, all of them unnamed nodes
KeySucc(d, key) ==
    IF key.name # ""
    THEN IF IsInterface(key.t) /\ GetNamedInterfaceBinding(d, key.name, key.t).ok
         THEN {nodeKey(GetNamedInterfaceBinding(d, key.name, key.t).t, "")}
         ELSE IF HasNamed(d, key.name, key.t)
         THEN {nodeKey(q, "") : q \in Range(d.namedConstructors[key.name][key.t].paramTypes)}
         ELSE {}
    ELSE IF IsInterface(key.t)
    THEN IF Bound(d, key.t) THEN {nodeKey(GetInterfaceBinding(d, key.t).t, "")} ELSE {}
    ELSE IF Has(d.constructors, key.t)
    THEN {nodeKey(q, "") : q \in Range(d.constructors[key.t].paramTypes)}
    ELSE {}

RECURSIVE KeyClosure(_, _)
KeyClosure(d, S) ==
    LET N == S \cup UNION {KeySucc(d, k) : k \in S} IN
    IF N = S THEN S ELSE KeyClosure(d, N)

\* every registration, unnamed and named, and what is reachable from them
WalkNodes(d) == KeyClosure(d, UnnamedRoots(d) \cup NamedRoots(d))

KeyOnCycle(d, key) == key \in KeyClosure(d, KeySucc(d, key))

\* the node is an interface type without a binding: the named binding of its
\* name for a named node, the unnamed binding for an unnamed one
LacksBinding(d, key) ==
    /\ IsInterface(key.t)
    /\ IF key.name # "" THEN ~GetNamedInterfaceBinding(d, key.name, key.t).ok
       ELSE ~Bound(d, key.t)

\* the node is a type, not an interface, without a registration
LacksRegistration(d, key) ==
    /\ ~IsInterface(key.t)
    /\ IF key.name # "" THEN ~HasNamed(d, key.name, key.t)
       ELSE ~Has(d.constructors, key.t)

\* no cycle, no type lacking a registration, no interface lacking a binding
NoDefect(d) ==
    \A key \in WalkNodes(d) :
        ~KeyOnCycle(d, key) /\ ~LacksRegistration(d, key) /\ ~LacksBinding(d, key)

\* the same, a named interface node being in order with a registration under
\* its name when it has no named binding
NoDefectInWalk(d) ==
    \A key \in WalkNodes(d) :
        /\ ~KeyOnCycle(d, key)
        /\ ~LacksRegistration(d, key)
        /\ LacksBinding(d, key) => key.name # "" /\ HasNamed(d, key.name, key.t)

\* C12 as stated: Validate returns nil if and only if the graph reachable
\* from every unnamed and every named registration has no cycle, no parameter
\* type lacking a registration and no interface type lacking a binding.
C12_NoInterfaceUnbound ==
    Done(Main, "Validate") => (last[Main].res.ok <=> NoDefect(dc))

\* C12: Validate returns nil if and only if the graph reachable from every
\* unnamed and every named registration has no cycle, no type that is not an
\* interface without a registration, and no interface without a binding
\* other than an interface registered under a name, taken as a root under
\* that name; in whichever order the walk takes the roots.  A type that
\* several dependents share is not reported as a cycle.
C12_ValidateIff ==
    Done(Main, "Validate") =>
        /\ last[Main].res.ok <=> NoDefectInWalk(dc)
        /\ LET v == Validate(dc) IN Nil \in v => v = {Nil}

\* Validate has accepted the registry in which A needs B and C and B needs C
C12_Witness ==
    /\ Succeeded(Main, "Validate", "")
    /\ Has(dc.constructors, "A") /\ dc.constructors["A"].paramTypes = <<"B", "C">>
    /\ Has(dc.constructors, "B") /\ dc.constructors["B"].paramTypes = <<"C">>
    /\ Has(dc.constructors, "C")
    /\ NoDefectInWalk(dc)

\* this step is a call of di.Validate
Validates ==
    /\ ops' = ops + 1
    /\ last'[Main].op = "Validate"

\* C13: a call of Validate, whether it returns nil or an error, invokes no
\* constructor, starts no resolution, and leaves the registrations, the
\* bindings, every cache tier, the in-progress markers and the lock as they
\* were.
C13_ValidateChangesNothing ==
    [][Validates => /\ dc' = dc
                    /\ calls' = calls
                    /\ frames' = frames
                    /\ mu' = mu
                    /\ last'[Main].made = <<>>]_vars

\* Validate has returned an error while the singleton cache holds an instance
C13_Witness ==
    /\ Failed(Main, "Validate", "")
    /\ DOMAIN dc.dependencies # {}
    /\ \E t \in Concrete : calls[t] > 0

----------------------------------------------------------------------------
(* Scope ids, bindings and names in resolution                             *)

\* the calls that resolve: Resolve and ResolveScoped, ResolveNamed and
\* ResolveNamedScoped, Get of a provider
Resolves == {"Resolve", "ResolveNamed", "Get"}

\* the registration a resolve of (name, t) is dispatched to: the unnamed one
\* of the concrete type of a binding, the named one of t, or else the unnamed
\* one of t; Nil if there is none
Dispatched(d, name, t) ==
    LET u == IF name = "" THEN Target(d, t)
             ELSE IF IsInterface(t) /\ GetNamedInterfaceBinding(d, name, t).ok
             THEN GetNamedInterfaceBinding(d, name, t).t
             ELSE t
    IN IF name # "" /\ u = t /\ HasNamed(d, name, t)
       THEN [t |-> t, name |-> name, reg |-> d.namedConstructors[name][t]]
       ELSE IF name # "" /\ u = t /\ IsInterface(t)
       THEN Nil
       ELSE IF Has(d.constructors, u)
       THEN [t |-> u, name |-> "", reg |-> d.constructors[u]]
       ELSE Nil

\* the caller's call resolves, with an empty scope id, a key whose
\* registration is Scoped
ScopedWithoutScopeId(c) ==
    /\ c.op \in Resolves
    /\ c.sid = NoScope
    /\ Dispatched(dc, c.name, c.t) # Nil
    /\ Dispatched(dc, c.name, c.t).reg.scope = Scoped

\* the error the container returned, under the wrapping of di.Resolve and
\* di.ResolveNamed
ContainerError(c) ==
    IF c.res.err.kind \in {"resolve", "resolvenamed"} THEN c.res.err.cause ELSE c.res.err

\* C14: a resolve of a Scoped registration, unnamed or named, with an empty
\* scope id invokes no constructor and changes no cache tier (nor anything
\* else in the container) at any of its steps, and when it has returned it
\* has failed with the scope-required error for the type.
C14_ScopeRequired ==
    /\ [][ScopedWithoutScopeId(last'[Main]) => dc' = dc /\ calls' = calls]_vars
    /\ [](ScopedWithoutScopeId(last[Main]) /\ last[Main].res # Pending =>
            /\ ~last[Main].res.ok
            /\ last[Main].made = <<>>
            /\ LET k == Dispatched(dc, last[Main].name, last[Main].t) IN
               ContainerError(last[Main]) =
                  Err(IF k.name = "" THEN "scope" ELSE "scopenamed", k.t, <<>>, Nil))

\* the named Scoped registration of C, cached under scope id s1, has been
\* resolved without scope id and the call has failed
C14_Witness ==
    /\ HasNamedScoped(dc, "s1", "n", "C")
    /\ Failed(Main, "ResolveNamed", "C")
    /\ last[Main].name = "n" /\ last[Main].sid = NoScope
    /\ ContainerError(last[Main]).kind = "scopenamed"

\* this step is a call of BindInterface or BindInterfaceNamed
Binds ==
    /\ ops' = ops + 1
    /\ last'[Main].op \in {"BindInterface", "BindInterfaceNamed"}

\* C15: a call of BindInterface or BindInterfaceNamed whose target type is not
\* an interface, whose concrete type does not implement the target, or whose
\* concrete type has no registered constructor returns the error that says
\* so and changes neither binding table (nor anything else); and a call that
\* returns nil has stored the binding it was given.
C15_BindRejects ==
    [][Binds =>
         LET i == last'[Main].t
             c == last'[Main].arg
             e == last'[Main].res.err
         IN /\ ~IsInterface(i) \/ ~Implements(c, i) \/ ~Has(dc.constructors, c) =>
                  /\ ~last'[Main].res.ok
                  /\ e = IF ~IsInterface(i) THEN Err("notinterface", i, <<>>, Nil)
                         ELSE IF ~Implements(c, i) THEN Err("notimplemented", c, <<>>, Nil)
                         ELSE Err("noctor", c, <<>>, Nil)
                  /\ dc' = dc
            /\ last'[Main].res.ok =>
                  IF last'[Main].op = "BindInterface"
                  THEN GetInterfaceBinding(dc', i) = [t |-> c, ok |-> TRUE]
                  ELSE GetNamedInterfaceBinding(dc', last'[Main].name, i) = [t |-> c, ok |-> TRUE]
      ]_vars

\* with I bound to B, the named binding of I to A, which implements I and has
\* no constructor, has been turned down
C15_Witness ==
    /\ Failed(Main, "BindInterfaceNamed", "I")
    /\ last[Main].arg = "A"
    /\ last[Main].res.err = Err("noctor", "A", <<>>, Nil)
    /\ GetInterfaceBinding(dc, "I") = [t |-> "B", ok |-> TRUE]
    /\ dc.namedInterfaceBindings = EmptyMap

\* C16: the resolve of an interface with an unnamed binding goes on as the
\* resolve of the bound concrete type under the same scope id and in the same
\* chain, nothing else changed; so a Resolve of the interface that returns an
\* instance returns the cached instance of the concrete type if that is
\* registered Singleton, the instance of the partition of the call's scope id
\* if it is Scoped, and an instance made by that call and held in no cache if
\* it is Transient; and one that fails for the concrete type itself fails
\* with the error that names the concrete type.
C16_BoundInterface ==
    /\ [][\A p \in Procs :
            At(p, "rws_bind") /\ Bound(dc, Top(p).t) /\ frames'[p] # frames[p] =>
                /\ frames'[p] = Front(frames[p])
                      \o <<Enter(GetInterfaceBinding(dc, Top(p).t).t, Top(p).sid, Top(p).stack)>>
                /\ UNCHANGED <<dc, mu, calls, last>>
         ]_vars
    /\ [](\A i \in Interfaces :
            Done(Main, "Resolve") /\ last[Main].t = i /\ Bound(dc, i) =>
                LET c == GetInterfaceBinding(dc, i).t
                    r == last[Main].res
                    e == r.err.cause
                IN /\ r.ok /\ RegisteredAs(dc, c, Singleton) =>
                        Has(dc.dependencies, c) /\ r.val = dc.dependencies[c]
                   /\ r.ok /\ RegisteredAs(dc, c, Scoped) =>
                        /\ Has(dc.scopedInstances, last[Main].sid)
                        /\ Has(dc.scopedInstances[last[Main].sid], c)
                        /\ r.val = dc.scopedInstances[last[Main].sid][c]
                   /\ r.ok /\ RegisteredAs(dc, c, Transient) =>
                        /\ r.val.t = c /\ r.val.n = calls[c]
                        /\ Count(last[Main].made, c) = 1
                        /\ r.val \notin CachedValues(dc, c)
                   /\ ~r.ok /\ e.kind \in {"scope", "ctor"} => e.t = c
                   /\ ~r.ok /\ e.kind = "param" => e.of = dc.constructors[c].constructor.ver)

\* I is bound to A, A is registered Scoped: the Resolve of I under scope id s1
\* has returned the A held in the partition of s1
C16_Witness ==
    /\ GetInterfaceBinding(dc, "I") = [t |-> "A", ok |-> TRUE]
    /\ RegisteredAs(dc, "A", Scoped)
    /\ Succeeded(Main, "Resolve", "I")
    /\ last[Main].sid = "s1"
    /\ Has(dc.scopedInstances, "s1") /\ Has(dc.scopedInstances["s1"], "A")
    /\ last[Main].res.val = dc.scopedInstances["s1"]["A"]

\* the ResolveNamed of an interface under a name that has no binding of it
NamedUnbound ==
    /\ Done(Main, "ResolveNamed")
    /\ IsInterface(last[Main].t)
    /\ ~GetNamedInterfaceBinding(dc, last[Main].name, last[Main].t).ok

\* C17 as stated: ResolveNamed of an interface under a name with no named
\* binding of it fails, whatever else is registered.
C17_UnboundFails ==
    NamedUnbound => ~last[Main].res.ok

\* C17: ResolveNamed of an interface under a name that has neither a named
\* binding nor a named registration of the interface fails with the no-binding
\* error and calls no constructor, whether or not the interface has an unnamed
\* binding; with a named registration of the interface under the name it
\* returns what that registration's constructor made.
C17_NoFallThrough ==
    NamedUnbound =>
        LET c == last[Main] IN
        IF HasNamed(dc, c.name, c.t)
        THEN c.res.ok => /\ c.res.val.t = c.t
                         /\ c.res.val.ver = dc.namedConstructors[c.name][c.t].constructor.ver
        ELSE /\ ~c.res.ok
             /\ c.res.err = Err("resolvenamed", c.t, <<>>, Err("nobindingnamed", c.t, <<>>, Nil))
             /\ c.made = <<>>

\* I is bound to A without a name and has nothing under the name m: the
\* ResolveNamed of I under m has failed with the no-binding error
C17_Witness ==
    /\ NamedUnbound
    /\ last[Main].t = "I" /\ last[Main].name = "m"
    /\ GetInterfaceBinding(dc, "I") = [t |-> "A", ok |-> TRUE]
    /\ ~HasNamed(dc, "m", "I")
    /\ last[Main].res = Fail(Err("resolvenamed", "I", <<>>, Err("nobindingnamed", "I", <<>>, Nil)))

----------------------------------------------------------------------------
(* The caches of named registrations                                       *)

\* the caller's last call was a named resolve that went to the Singleton
\* registration of its type under its name, and it has returned
NamedSingletonDone ==
    /\ last[Main].op \in {"ResolveNamed", "Get"}
    /\ last[Main].name # ""
    /\ last[Main].res # Pending
    /\ Dispatched(dc, last[Main].name, last[Main].t) # Nil
    /\ Dispatched(dc, last[Main].name, last[Main].t).name = last[Main].name
    /\ Dispatched(dc, last[Main].name, last[Main].t).reg.scope = Singleton

\* C18: a named resolve of a type registered Singleton under the name returns
\* the instance cached under (name, type); every instance cached under
\* (name, type) was made by the constructor registered under that name, is a
\* different instance from the one cached for the type under any other name
\* and from the one cached for the unnamed registration of the type, and once
\* cached it stays the instance of (name, type).
C18_NamedCaches ==
    /\ [](NamedSingletonDone /\ last[Main].res.ok =>
            /\ HasNamedDependency(dc, last[Main].name, last[Main].t)
            /\ last[Main].res.val = dc.namedDependencies[last[Main].name][last[Main].t])
    /\ [](\A n \in BindingNames, t \in Types :
            HasNamedDependency(dc, n, t) =>
                LET v == dc.namedDependencies[n][t] IN
                /\ HasNamed(dc, n, t)
                /\ v.t = t
                /\ v.ver = dc.namedConstructors[n][t].constructor.ver
                /\ \A m \in BindingNames \ {n} :
                      HasNamedDependency(dc, m, t) => dc.namedDependencies[m][t] # v
                /\ Has(dc.dependencies, t) => dc.dependencies[t] # v)
    /\ [][\A n \in BindingNames, t \in Types :
            HasNamedDependency(dc, n, t) =>
                /\ HasNamedDependency(dc', n, t)
                /\ dc'.namedDependencies[n][t] = dc.namedDependencies[n][t]
         ]_vars

\* A is cached under the names n and m and for the unnamed registration,
\* three different instances, and a repeated resolve of A under m has
\* returned the instance of m without calling a constructor
C18_Witness ==
    /\ NamedSingletonDone
    /\ last[Main].t = "A" /\ last[Main].name = "m"
    /\ HasNamedDependency(dc, "n", "A") /\ HasNamedDependency(dc, "m", "A")
    /\ Has(dc.dependencies, "A")
    /\ dc.namedDependencies["n"]["A"] # dc.namedDependencies["m"]["A"]
    /\ dc.dependencies["A"] # dc.namedDependencies["m"]["A"]
    /\ last[Main].res = Ok(dc.namedDependencies["m"]["A"])
    /\ last[Main].made = <<>>

----------------------------------------------------------------------------
(* Providers                                                               *)

\* the registration a Get of the caller's provider goes to is Singleton or
\* Scoped
GetOfCached ==
    /\ last[Main].op = "Get"
    /\ last[Main].res # Pending
    /\ Dispatched(dc, last[Main].name, last[Main].t) # Nil
    /\ Dispatched(dc, last[Main].name, last[Main].t).reg.scope \in {Singleton, Scoped}

\* the cache tier and slot of the key (t, name) resolved under scope id sid
CacheSlot(d, k, sid) ==
    IF k.name = ""
    THEN IF k.reg.scope = Singleton
         THEN IF Has(d.dependencies, k.t) THEN d.dependencies[k.t] ELSE Nil
         ELSE IF Has(d.scopedInstances, sid) /\ Has(d.scopedInstances[sid], k.t)
              THEN d.scopedInstances[sid][k.t] ELSE Nil
    ELSE IF k.reg.scope = Singleton
         THEN IF HasNamedDependency(d, k.name, k.t)
              THEN d.namedDependencies[k.name][k.t] ELSE Nil
         ELSE IF HasNamedScoped(d, sid, k.name, k.t)
              THEN d.namedScopedInstances[sid][k.name][k.t] ELSE Nil

\* C19 as stated: a Get that follows a Get of the same provider, of a
\* Singleton or Scoped registration, calls no constructor.
C19_FirstGetOnly ==
    GetOfCached /\ last[Main].after.op = "Get" => last[Main].made = <<>>

\* C19: making a provider calls no constructor and changes nothing in the
\* container; a Get starts one resolve of the provider's type, name and scope
\* id; a Get of a Singleton or Scoped registration that returns an instance
\* returns the one in the cache slot of its key, and a Get that follows a Get
\* which returned an instance calls no constructor and returns that same
\* instance; a filled slot keeps its instance through every step but the
\* destruction of scopes, which empties the Scoped ones. (A Get that follows
\* a failed Get runs the constructor again.)
C19_Providers ==
    /\ [][ops' # ops /\ last'[Main].op = "NewProvider" =>
            /\ UNCHANGED <<dc, mu, frames, calls>>
            /\ last'[Main].made = <<>>
            /\ last'[Main].res = Ok(Nil)
         ]_vars
    /\ [][ops' # ops /\ last'[Main].op = "Get" =>
            /\ UNCHANGED <<dc, mu, calls>>
            /\ last'[Main].t = last[Main].t
            /\ last'[Main].name = last[Main].name
            /\ last'[Main].sid = last[Main].sid
            /\ frames'[Main] =
                  IF last[Main].name # ""
                  THEN <<EnterNamed(last[Main].name, last[Main].t, last[Main].sid, <<>>)>>
                  ELSE <<Enter(last[Main].t, last[Main].sid, <<>>)>>
         ]_vars
    /\ [](GetOfCached /\ last[Main].res.ok =>
            /\ last[Main].res.val =
                  CacheSlot(dc, Dispatched(dc, last[Main].name, last[Main].t), last[Main].sid)
            /\ last[Main].after.op = "Get" /\ last[Main].after.ok =>
                  last[Main].made = <<>>)
    /\ [][\A k \in ProviderKeys :
            LET d == Dispatched(dc, k[2], k[1]) IN
            /\ d # Nil
            /\ d.reg.scope \in {Singleton, Scoped}
            /\ CacheSlot(dc, d, k[3]) # Nil
            /\ d.reg.scope = Scoped =>
                  ~(ops' # ops /\ last'[Main].op \in {"DestroyScope", "DestroyAllScopes"})
            => CacheSlot(dc', d, k[3]) = CacheSlot(dc, d, k[3])
         ]_vars

\* a provider of the Singleton A: the first Get built A, the second Get has
\* returned the cached A and called no constructor
C19_Witness ==
    /\ GetOfCached
    /\ last[Main].t = "A" /\ last[Main].name = ""
    /\ last[Main].after = [op |-> "Get", t |-> "A", ok |-> TRUE]
    /\ last[Main].res = Ok(dc.dependencies["A"])
    /\ last[Main].made = <<>>
    /\ calls["A"] = 1

----------------------------------------------------------------------------
(* Batch registration at run time                                          *)

\* the step is a call of RegisterRuntimeBatch or RegisterRuntimeWithScopes
BatchCall ==
    /\ ops' # ops
    /\ last'[Main].op \in {"RegisterRuntimeBatch", "RegisterRuntimeWithScopes"}

\* what the call returned: nil or the error
Outcome(c) == IF c.res.ok THEN Nil ELSE c.res.err

\* C20 as stated: every call of a batch registration returns what Validate
\* says, once, of the registry the call has left.
C20_AlwaysValidated ==
    [][BatchCall => Outcome(last'[Main]) \in Validate(dc')]_vars

\* C20: a batch registration registers its items in order; if every item is
\* registered it returns what one Validate of the registry with all the items
\* returns, whatever the registries in between were; if an item is rejected it
\* returns that item's error, with the items before it registered and no
\* validation at all.
C20_BatchValidatedAtEnd ==
    [][BatchCall =>
         LET r == RegisterEach(dc, last'[Main].arg) IN
         /\ dc' = r.dc
         /\ IF r.err # Nil THEN last'[Main].res = Fail(r.err)
            ELSE Outcome(last'[Main]) \in Validate(r.dc)
      ]_vars

\* the batch (B needing A, then A) registered in the empty registry has
\* returned nil: B alone would not have validated
C20_Witness ==
    /\ ops = 1
    /\ last[Main].op = "RegisterRuntimeBatch"
    /\ last[Main].arg = WithScope(<<BA, A0>>, Singleton)
    /\ last[Main].res = Ok(Nil)
    /\ Nil \notin Validate(RegisterEach(New, WithScope(<<BA>>, Singleton)).dc)
    /\ Has(dc.constructors, "A") /\ Has(dc.constructors, "B")

----------------------------------------------------------------------------
(* Destroying scopes                                                       *)

\* the container apart from its two maps of scope partitions
Unscoped(d) ==
    [d EXCEPT !.scopedInstances = EmptyMap, !.namedScopedInstances = EmptyMap]

\* C21: DestroyScope(id) leaves no partition of id, unnamed or named, leaves
\* every partition of every other id as it was and changes nothing else in
\* the container; it calls no constructor and returns normally; with an id
\* that has no partition (never used, or destroyed before) the container is
\* left exactly as it was.
C21_DestroyScope ==
    [][ops' # ops /\ last'[Main].op = "DestroyScope" =>
         LET sid == last'[Main].sid IN
         /\ ~Has(dc'.scopedInstances, sid)
         /\ ~Has(dc'.namedScopedInstances, sid)
         /\ DOMAIN dc'.scopedInstances = DOMAIN dc.scopedInstances \ {sid}
         /\ DOMAIN dc'.namedScopedInstances = DOMAIN dc.namedScopedInstances \ {sid}
         /\ \A s \in DOMAIN dc'.scopedInstances :
               dc'.scopedInstances[s] = dc.scopedInstances[s]
         /\ \A s \in DOMAIN dc'.namedScopedInstances :
               dc'.namedScopedInstances[s] = dc.namedScopedInstances[s]
         /\ Unscoped(dc') = Unscoped(dc)
         /\ ~Has(dc.scopedInstances, sid) /\ ~Has(dc.namedScopedInstances, sid) => dc' = dc
         /\ last'[Main].res = Ok(Nil)
         /\ UNCHANGED <<mu, frames, calls>>
      ]_vars

\* B, scoped and unnamed, and A, scoped under the name n, were each built
\* once, under s1, and DestroyScope(s1) has returned: no partition is left
C21_Witness ==
    /\ ops = 3
    /\ last[Main].op = "DestroyScope" /\ last[Main].sid = "s1"
    /\ last[Main].res = Ok(Nil)
    /\ RegisteredAs(dc, "B", Scoped) /\ ~Has(dc.constructors, "A")
    /\ calls["B"] = 1 /\ calls["A"] = 1
    /\ dc.scopedInstances = EmptyMap
    /\ dc.namedScopedInstances = EmptyMap

\* C22: DestroyAllScopes leaves no scope partition, unnamed or named, and
\* leaves the registrations, the bindings, the singleton caches, unnamed and
\* named, and the builds in progress as they were; it calls no constructor.
C22_DestroyAllScopes ==
    [][ops' # ops /\ last'[Main].op = "DestroyAllScopes" =>
         /\ dc'.scopedInstances = EmptyMap
         /\ dc'.namedScopedInstances = EmptyMap
         /\ dc'.constructors = dc.constructors
         /\ dc'.namedConstructors = dc.namedConstructors
         /\ dc'.interfaceBindings = dc.interfaceBindings
         /\ dc'.namedInterfaceBindings = dc.namedInterfaceBindings
         /\ dc'.dependencies = dc.dependencies
         /\ dc'.namedDependencies = dc.namedDependencies
         /\ dc'.inProgress = dc.inProgress
         /\ last'[Main].res = Ok(Nil)
         /\ UNCHANGED <<mu, frames, calls>>
      ]_vars

\* the singleton A and the A scoped under the name m in s1 were built, and
\* DestroyAllScopes has returned: the singleton is still cached, no partition
\* is left
C22_Witness ==
    /\ ops = 3
    /\ last[Main].op = "DestroyAllScopes"
    /\ last[Main].res = Ok(Nil)
    /\ HasNamed(dc, "m", "A") /\ dc.namedConstructors["m"]["A"].scope = Scoped
    /\ calls["A"] = 2
    /\ Has(dc.dependencies, "A")
    /\ dc.scopedInstances = EmptyMap
    /\ dc.namedScopedInstances = EmptyMap

----------------------------------------------------------------------------
(* The lock held during construction                                       *)

\* the next step of the frame asks for dc.mu: every step of the resolver but
\* the constructor call itself, the stores that end a section the caller
\* holds the lock for, the wait for another build and the cycle check that
\* finds the type on the chain
AsksForLock(f) ==
    /\ f.pc \notin {"ctor", "rsc_built", "rns_built", "rnsc_built", "rs_wait"}
    /\ ~(f.pc = "rws_check" /\ InSeq(f.t, f.stack))

\* the caller holds the write lock and its next step asks for the lock again:
\* sync.RWMutex is not reentrant, the caller waits for itself
SelfBlocked(p) ==
    /\ Running(p)
    /\ mu.w = p
    /\ AsksForLock(Top(p))

\* C23: a caller that holds the container lock for the construction it is in
\* never comes to a step that asks for that lock.
C23_NoSelfBlock ==
    \A p \in Procs : ~SelfBlocked(p)

----------------------------------------------------------------------------
(* Waiters of a build that failed                                          *)

\* p waited for the build of a Singleton, has been woken, and the build left
\* nothing in the cache: it failed
WokenAfterFailure(p) ==
    /\ At(p, "rs_wait")
    /\ Top(p).woken
    /\ ~Has(dc.dependencies, Top(p).t)

\* C24: the step a waiter takes when it has been woken after a failed build
\* is the return from its resolve of the type, with a failure when that
\* resolve is the caller's whole call; it does not start the resolve again.
C24_WaiterReturnsFailure ==
    [][\A p \in Procs :
          WokenAfterFailure(p) /\ frames'[p] # frames[p] =>
              /\ Len(frames'[p]) < Len(frames[p])
                    \/ frames'[p][Len(frames[p])].pc \notin {"rws_bind", "rws_check"}
              /\ Len(frames[p]) = 1 => last'[p].res # Pending /\ ~last'[p].res.ok
      ]_vars

----------------------------------------------------------------------------
(* Override next to a resolve                                              *)

\* the instances of type t in the singleton cache and the scope partitions
HeldInstances(d, t) ==
    (IF Has(d.dependencies, t) THEN {d.dependencies[t]} ELSE {})
    \cup {d.scopedInstances[s][t] : s \in {x \in DOMAIN d.scopedInstances :
                                             Has(d.scopedInstances[x], t)}}

\* C25: when the Override of a type has returned nil, and until the next call
\* of the overriding caller, no cache tier holds an instance of the type made
\* by a constructor other than the registered one.
C25_NoStaleInstance ==
    /\ last[Mutator].op = "Override"
    /\ last[Mutator].res # Pending
    /\ last[Mutator].res.ok
    => \A v \in HeldInstances(dc, last[Mutator].t) :
          v.ver = dc.constructors[last[Mutator].t].constructor.ver

----------------------------------------------------------------------------
(* Validate next to a writer                                               *)

\* the walk of p holds the read lock and asks for it again at an interface
\* node, behind a writer that is blocked until the walk lets go of it
ValidateBlocked(p) ==
    /\ At(p, "v_walk")
    /\ Top(p).i > 0
    /\ mu.r > 0
    /\ WriterWaiting

\* C29: a Validate that holds the read lock is never kept from taking it
\* again by a writer that waits for that same read lock to be released.
C29_ValidateNotBlocked == \A p \in Procs : ~ValidateBlocked(p)

----------------------------------------------------------------------------
(* Callers that enter a cycle at different types                           *)

\* q has marked t in progress and its constructor has not returned
Builds(q, t) ==
    \E k \in 1..Len(frames[q]) : frames[q][k].pc = "rs_built" /\ frames[q][k].t = t

\* p waits for the channel of a build of q, which has not been closed
WaitsFor(p, q) ==
    /\ At(p, "rs_wait")
    /\ ~Top(p).woken
    /\ Builds(q, Top(p).t)

\* C26: two callers never wait for each other's build.
C26_NoMutualWait ==
    \A p, q \in Procs : p # q => ~(WaitsFor(p, q) /\ WaitsFor(q, p))

----------------------------------------------------------------------------
(* Scoped construction and the other callers                               *)

\* p is in the constructor call of the Scoped type t under the scope id sid,
\* made by resolveScoped with the write lock held
ConstructsScoped(p, t, sid) ==
    /\ mu.w = p
    /\ \E k \in 1..Len(frames[p]) :
          /\ frames[p][k].pc = "rsc_built"
          /\ frames[p][k].res = Pending
          /\ frames[p][k].t = t
          /\ frames[p][k].sid = sid

\* C27: while a caller constructs a Scoped type under a scope id, no caller
\* that resolves another type, or the same type under another scope id, is at
\* a step that needs the lock the constructing caller holds.
C27_OtherKeysNotBlocked ==
    \A p, q \in Procs : \A t \in Types, sid \in ScopeIds :
        /\ p # q
        /\ ConstructsScoped(p, t, sid)
        /\ Running(q)
        /\ Top(q).t # t \/ Top(q).sid # sid
        => ~AsksForLock(Top(q))

----------------------------------------------------------------------------
(* Callers of one Scoped type under one scope id                           *)

\* the one call of p and the one call of q are resolves of the Scoped type t
\* under the scope id sid
SameScopedCall(p, q, t, sid) ==
    /\ p # q
    /\ dc.constructors[t].scope = Scoped
    /\ \A r \in {p, q} : /\ last[r].op = "Resolve"
                         /\ last[r].t = t
                         /\ last[r].sid = sid

\* the calls of t's constructor made by the two calls
Invocations(p, q, t) == Count(last[p].made, t) + Count(last[q].made, t)

----------------------------------------------------------------------------
(* Cycle detection under concurrent callers                                *)

\* C30: in the acyclic, fully registered graphs, no Resolve of any caller
\* returns a circular-dependency error, whatever the other caller is
\* resolving at the time.
C30_NoFalseCycle ==
    \A p \in Procs :
        Done(p, "Resolve") /\ ~last[p].res.ok
            => RootCause(last[p].res.err).kind # "circular"

\* a caller has come, below the type it was asked for, to a type that the
\* other caller is building, and waits for it
C30_Witness ==
    \E p, q \in Procs :
        /\ p # q
        /\ At(q, "rs_wait")
        /\ Len(Top(q).stack) > 1
        /\ Builds(p, Top(q).t)

----------------------------------------------------------------------------
(* The chain of a circular-dependency error                                *)

\* the chain of types of the circular-dependency error the caller's last call
\* returned, <<>> if it returned none
ReportedChain(c) ==
    IF c.res = Pending \/ c.res.ok THEN <<>>
    ELSE IF c.op \in {"Resolve", "ResolveNamed", "Get"}
    THEN IF RootCause(c.res.err).kind = "circular" THEN RootCause(c.res.err).chain ELSE <<>>
    ELSE IF c.res.err.kind = "circular" THEN NodeTypes(c.res.err.chain)
    ELSE <<>>

\* C31: the chain of a circular-dependency error returned by a resolve or by
\* a validating entry point starts at the type it ends with.
C31_ChainIsTheCycle ==
    LET ch == ReportedChain(last[Main]) IN
    ch # <<>> => ch[1] = ch[Len(ch)]

----------------------------------------------------------------------------
(* Registering a key again                                                 *)

\* C33: when RegisterRuntime of a constructor of type t has returned nil, no
\* cache tier holds an instance of t: the one built before the call, if any,
\* has been removed.
C33_ReRegistrationEvicts ==
    /\ Done(Main, "RegisterRuntime")
    /\ last[Main].res.ok
    => HeldInstances(dc, last[Main].t) = {}

----------------------------------------------------------------------------
(* The scope id of a call and of the resolves made on its behalf            *)

\* C34: every frame of a caller's resolve (the resolve itself, the
\* constructor calls and the resolves of their parameters) carries the scope
\* id the call was made with.
C34_ScopeIdKept ==
    \A p \in Procs :
        Running(p) /\ last[p].op \in {"Resolve", "ResolveNamed", "Get"} =>
            \A k \in 1..Len(frames[p]) : frames[p][k].sid = last[p].sid

----------------------------------------------------------------------------
(* The parameters of a named registration                                  *)

\* the unnamed registration a parameter of type t is resolved through: that
\* of the concrete type of t's unnamed binding, or that of t; Nil if none
UnnamedRegistration(d, t) ==
    LET b == GetInterfaceBinding(d, t)
        c == IF IsInterface(t) /\ b.ok THEN b.t ELSE t
    IN IF Has(d.constructors, c) THEN d.constructors[c] ELSE Nil

\* the caller's ResolveNamed returned an object made by the registration of
\* its (name, type)
BuiltByNamed(c) ==
    /\ c.op = "ResolveNamed"
    /\ c.res # Pending
    /\ c.res.ok
    /\ HasNamed(dc, c.name, c.t)
    /\ c.res.val.ver = dc.namedConstructors[c.name][c.t].constructor.ver

\* C35: the resolve of a parameter of a named registration is a frame of the
\* unnamed resolver; every argument of an object made by a named registration
\* was made by the unnamed registration (or unnamed binding) of its type; a
\* ResolveNamed whose registration has a parameter type without unnamed
\* registration fails on it, and Validate rejects such a registry, whether or
\* not the type is registered under the name.
C35_ParametersUnnamed ==
    /\ \A k \in 2..Len(frames[Main]) :
          frames[Main][k - 1].pc = "ctor" => frames[Main][k].name = ""
    /\ BuiltByNamed(last[Main]) =>
          LET reg == dc.namedConstructors[last[Main].name][last[Main].t] IN
          \A i \in 1..Len(reg.paramTypes) :
              /\ UnnamedRegistration(dc, reg.paramTypes[i]) # Nil
              /\ last[Main].res.val.args[i].ver =
                    UnnamedRegistration(dc, reg.paramTypes[i]).constructor.ver
    /\ \A n \in BindingNames, t \in Types :
          /\ HasNamed(dc, n, t)
          /\ \E i \in 1..Len(dc.namedConstructors[n][t].paramTypes) :
                UnnamedRegistration(dc, dc.namedConstructors[n][t].paramTypes[i]) = Nil
          => /\ Nil \notin Validate(dc)
             /\ Done(Main, "ResolveNamed") /\ last[Main].name = n /\ last[Main].t = t
                /\ ~(IsInterface(t) /\ GetNamedInterfaceBinding(dc, n, t).ok)
                => ~last[Main].res.ok

\* the named B has been made with the unnamed A as its argument, in a
\* registry that has another A under the name
C35_Witness ==
    /\ BuiltByNamed(last[Main])
    /\ last[Main].t = "B"
    /\ HasNamed(dc, last[Main].name, "A")
    /\ Has(dc.constructors, "A")
    /\ last[Main].res.val.args[1].ver = dc.constructors["A"].constructor.ver
    /\ last[Main].res.val.args[1].ver # dc.namedConstructors[last[Main].name]["A"].constructor.ver

----------------------------------------------------------------------------
(* A parameter that cannot be resolved                                     *)

RECURSIVE Causes(_)
\* an error and the errors it wraps
Causes(e) == IF e.cause = Nil THEN {e} ELSE {e} \cup Causes(e.cause)

\* frame k of the caller is a wrapped constructor that is resolving a
\* parameter, and this step ends it without the parameter: the resolve of the
\* parameter has failed
ParameterFails(k) ==
    /\ k <= Len(frames[Main])
    /\ frames[Main][k].pc = "ctor"
    /\ frames[Main][k].i <= Len(frames[Main][k].reg.paramTypes)
    /\ Len(frames'[Main]) < k \/ frames'[Main][k].pc # "ctor"

\* what the step hands to the caller of the frames it has ended
Handed == IF Len(frames'[Main]) = 0 THEN last'[Main].res ELSE Last(frames'[Main]).res

\* C36: a wrapped constructor holds only arguments that were resolved; the
\* step in which the resolve of its i-th parameter fails ends the wrapped
\* constructor (no later parameter is resolved), invokes no constructor of the
\* type being built, changes no cache entry of that type, and hands on an
\* error that wraps the parameter's failure as that of parameter i of this
\* constructor.
C36_ParameterFailureAborts ==
    /\ [](\A k \in 1..Len(frames[Main]) :
             frames[Main][k].pc = "ctor" =>
                 /\ Len(frames[Main][k].args) = frames[Main][k].i - 1
                 /\ \A j \in 1..Len(frames[Main][k].args) : frames[Main][k].args[j] # Nil)
    /\ [][\A k \in 1..4 :
            ParameterFails(k) =>
                LET f == frames[Main][k] IN
                /\ Len(frames'[Main]) < k
                /\ calls'[f.t] = calls[f.t]
                /\ HeldInstances(dc', f.t) = HeldInstances(dc, f.t)
                /\ dc'.namedDependencies = dc.namedDependencies
                /\ dc'.namedScopedInstances = dc.namedScopedInstances
                /\ Handed # Pending
                /\ ~Handed.ok
                /\ \E e \in Causes(Handed.err) :
                      /\ e.kind = "param"
                      /\ e.t = f.reg.paramTypes[f.i]
                      /\ e.i = f.i
                      /\ e.of = f.reg.constructor.ver
                      /\ e.cause # Nil
                      /\ RootCause(e).kind # "param"
         ]_vars

\* the resolve of A(B, C) has failed on its first parameter: A's constructor
\* was not invoked and A is not cached
C36_Witness ==
    /\ Done(Main, "Resolve")
    /\ last[Main].t = "A"
    /\ ~last[Main].res.ok
    /\ ContainerError(last[Main]).kind = "param"
    /\ ContainerError(last[Main]).i = 1
    /\ Has(dc.constructors, "A")
    /\ Len(dc.constructors["A"].paramTypes) = 2
    /\ ContainerError(last[Main]).of = dc.constructors["A"].constructor.ver
    /\ Count(last[Main].made, "A") = 0
    /\ HeldInstances(dc, "A") = {}

----------------------------------------------------------------------------
(* Nil instances at the typed entry points                                 *)

\* C37 as stated: every typed entry point (Resolve, ResolveScoped,
\* ResolveNamed, ResolveNamedScoped, Provider.Get) that has returned a nil
\* error has returned a value of the requested type, never the nil (zero)
\* value.
C37_NilIsAnError ==
    \A p \in Procs :
        /\ last[p].op \in {"Resolve", "ResolveNamed", "Get"}
        /\ last[p].res # Pending
        /\ last[p].res.ok
        => last[p].res.val # NilValue

----------------------------------------------------------------------------
(* An interface registered directly                                        *)

\* C38 as stated: Validate accepts the registries in which all resolves
\* succeed; when a constructor that produces the interface is registered
\* directly, the interface has no binding, and the registry graph has no cycle
\* and no missing dependency, a Validate that has returned has returned nil.
C38_RegisteredInterfacePasses ==
    /\ Done(Main, "Validate")
    /\ \E i \in Interfaces : Has(dc.constructors, i) /\ ~Bound(dc, i)
    /\ GraphValid(dc)
    => last[Main].res.ok

----------------------------------------------------------------------------
(* Scope ids without a partition                                           *)

\* C39: a resolve of a Scoped registration, unnamed or named, under a
\* non-empty scope id needs no partition made beforehand: the slow path makes
\* the partition of the scope id (and of the name) if there is none, whether
\* the id was never created or was destroyed; a resolve that has returned has
\* failed only with the error of a constructor, and otherwise has returned the
\* instance that the partition of its scope id now holds.
C39_PartitionOnTheFly ==
    /\ [](LET c == last[Main]
              k == Dispatched(dc, c.name, c.t)
          IN /\ c.op \in {"Resolve", "ResolveNamed"}
             /\ c.res # Pending
             /\ c.sid # NoScope
             /\ k # Nil
             /\ k.reg.scope = Scoped
             => /\ c.res.ok => CacheSlot(dc, k, c.sid) = c.res.val
                /\ ~c.res.ok => RootCause(ContainerError(c)).kind = "ctor")
    /\ [][LET f == Top(Main) IN
          /\ At(Main, "rsc_lock") /\ ~Has(dc.scopedInstances, f.sid)
                => /\ Has(dc'.scopedInstances, f.sid)
                   /\ dc'.scopedInstances[f.sid] = EmptyMap
          /\ At(Main, "rnsc_lock") /\ ~Has(dc.namedScopedInstances, f.sid)
                => /\ Has(dc'.namedScopedInstances, f.sid)
                   /\ Has(dc'.namedScopedInstances[f.sid], f.name)
                   /\ dc'.namedScopedInstances[f.sid][f.name] = EmptyMap
         ]_vars

\* the Scoped type was resolved under s1, s1 was destroyed, and the type was
\* resolved under s1 again: the partition is back and holds the second
\* instance
C39_Witness ==
    /\ RegisteredAs(dc, "B", Scoped)
    /\ \A n \in DOMAIN dc.namedConstructors : ~HasNamed(dc, n, "B")
    /\ Succeeded(Main, "Resolve", "B")
    /\ last[Main].sid = "s1"
    /\ last[Main].res.val.n = 2
    /\ Has(dc.scopedInstances, "s1")
    /\ Has(dc.scopedInstances["s1"], "B")
    /\ dc.scopedInstances["s1"]["B"] = last[Main].res.val

----------------------------------------------------------------------------
(* What an override leaves alone                                           *)

\* this step is a call of Override for type t, whatever it returns
OverrideStep(t) ==
    /\ ops' = ops + 1
    /\ last'[Main].op = "Override"
    /\ last'[Main].t = t

\* C40: a call of Override for type T leaves the registration and the cache
\* entries, singleton and scoped, of every other type as they were, and the
\* named registrations, the named caches and the bindings too; and a Resolve
\* of another type U that follows the Override, U a Singleton that is cached
\* when the Resolve is called, invokes no constructor, changes nothing and
\* returns the cached instance, the one built before the override.
C40_OverrideEvictsOnlyT ==
    /\ [][\A t \in Types :
            OverrideStep(t) =>
                /\ Del(dc'.constructors, t) = Del(dc.constructors, t)
                /\ Del(dc'.dependencies, t) = Del(dc.dependencies, t)
                /\ DOMAIN dc'.scopedInstances = DOMAIN dc.scopedInstances
                /\ \A sid \in DOMAIN dc.scopedInstances :
                      Del(dc'.scopedInstances[sid], t) = Del(dc.scopedInstances[sid], t)
                /\ dc'.namedConstructors = dc.namedConstructors
                /\ dc'.namedDependencies = dc.namedDependencies
                /\ dc'.namedScopedInstances = dc.namedScopedInstances
                /\ dc'.interfaceBindings = dc.interfaceBindings
                /\ dc'.namedInterfaceBindings = dc.namedInterfaceBindings
         ]_vars
    /\ [][LET u == Target(dc, last[Main].t) IN
          /\ last[Main].op = "Resolve"
          /\ last[Main].res = Pending
          /\ last[Main].after.op = "Override"
          /\ last[Main].after.t # u
          /\ RegisteredAs(dc, u, Singleton)
          /\ Has(dc.dependencies, u)
          /\ last[Main].made = <<>>
          => /\ calls' = calls
             /\ dc' = dc
             /\ last'[Main].made = <<>>
             /\ last'[Main].res # Pending => last'[Main].res = Ok(dc.dependencies[u])
         ]_vars

\* U was built with an instance of T and cached, T was overridden, and the
\* Resolve of U that followed returned the cached U, which holds the old T:
\* the container caches no T any more
C40_Witness ==
    \E u, t \in Concrete :
        /\ u # t
        /\ Succeeded(Main, "Resolve", u)
        /\ last[Main].after = [op |-> "Override", t |-> t, ok |-> TRUE]
        /\ last[Main].made = <<>>
        /\ RegisteredAs(dc, u, Singleton)
        /\ dc.dependencies[u] = last[Main].res.val
        /\ Len(last[Main].res.val.args) = 1
        /\ last[Main].res.val.args[1].t = t
        /\ HeldInstances(dc, t) = {}

----------------------------------------------------------------------------
(* What a registry that passes Validate guarantees                         *)

\* C32: in a registry that Validate accepts (whatever the order of its walk)
\* and that is not changed any more, a resolve of a registered type, unnamed,
\* named or through a provider, under a non-empty scope id, that has returned
\* an error has returned the error of a constructor: never a
\* no-constructor, no-binding or circular-dependency error.
C32_ValidatedResolves ==
    LET c == last[Main] IN
    /\ c.op \in Resolves
    /\ c.res # Pending
    /\ ~c.res.ok
    /\ c.sid # NoScope
    /\ IF c.name = "" THEN Has(dc.constructors, c.t) ELSE HasNamed(dc, c.name, c.t)
    /\ Validate(dc) = {Nil}
    => /\ RootCause(ContainerError(c)).kind = "ctor"
       /\ RootCause(ContainerError(c)).kind
             \notin {"noctor", "nobinding", "nobindingnamed", "nonamed", "circular"}

\* in a registry that Validate accepts, the resolve of a type registered
\* under a name with a parameter has returned an instance built with the
\* unnamed registration of the parameter
C32_Witness ==
    /\ Validate(dc) = {Nil}
    /\ Succeeded(Main, "ResolveNamed", "B")
    /\ last[Main].name = "n"
    /\ last[Main].sid = "s1"
    /\ HasNamed(dc, "n", "B")
    /\ HasNamed(dc, "n", "A")
    /\ Has(dc.constructors, "A")
    /\ Len(last[Main].res.val.args) = 1
    /\ last[Main].res.val.args[1].ver = dc.constructors["A"].constructor.ver

====
